---- MODULE Spec2Model ----
(***************************************************************************)
(* Mansion Escape (Halloween 2025): player motion and wall collision,      *)
(* ghost wander/chase state machine, ghost contact and respawn, power-ups  *)
(* and the speed buff, modelled from the five source variants:             *)
(*   "game_a"   src/game.js lines 1-215   (first program of the file)      *)
(*   "game_b"   src/game.js lines 217-827 (second program of the file)     *)
(*   "part_001" src/unnamed/part_001                                       *)
(*   "part_000" src/unnamed/part_000                                       *)
(*   "part_002" src/unnamed/part_002                                       *)
(*                                                                         *)
(* Numbers.  The source computes in IEEE doubles.  Here every coordinate,  *)
(* size, speed and distance is an integer number of TENTHS of a pixel      *)
(* (WALK_SPEED 2.5 px is 25, PLAYER_SIZE 32 px is 320), so every constant  *)
(* of the source is exact.  Irrational products (the 1/sqrt(2) diagonal    *)
(* factor, cos/sin of the pursuit angle) are rounded to the nearest tenth. *)
(* Times are integer milliseconds; the buff multiplier is in tenths.       *)
(***************************************************************************)
EXTENDS Integers, Sequences, FiniteSets, TLC

VARIABLES
    variant,              \* which source variant runs
    gameStarted,          \* flag set by startGame
    loadPhase,            \* position of the async start: "none" | "socket" | "image" | "geometry" | "done"
    MAP_WIDTH, MAP_HEIGHT,
    walls, obstacles,     \* sequences of rectangles [x, y, w, h]
    input,                \* the held keys (the `input` map), a set of key names
    player,               \* [x, y, size, speed, lives, sprinting]
    ghosts,               \* sequence of ghost records
    powerups,             \* sequence of [x, y, size, type, active]
    speedBuffTime, speedBuffMultiplier,
    camX, camY,           \* smoothed camera offset (part_000, part_002)
    multiplayer,          \* flag set by startGame("multiplayer")
    socket,               \* "null" | "connecting" | "open" | "closed": the current WebSocket
    reconnectTimer,       \* TRUE while `reconnectTimer` holds a timeout handle
    timers,               \* number of reconnect timeouts armed and not yet fired
    liveSockets,          \* number of WebSocket objects created and not yet closed
    paused,               \* flag toggled by the P key
    sinceLastTime,        \* ms from `lastTime` to the end of the last loop callback
    otherPlayers,         \* the remote-player registry: a set of [id, x, y, name], one per id
    currentMapName,       \* name of the map the game is meant to show
    mapName,              \* argument of the loadMap call made, "none" before it
    doorways,             \* non-colliding regions of the loaded map
    ticks,                \* number of update() calls so far
    netEvents,            \* number of socket events and server messages so far
    origin,               \* "constructed" | "midGame": the initial state of this run
    sinceBuff,            \* frame time summed since the last speed buff started, -1 if none
    probe,                \* a pair of rectangles and what the overlap tests say of it
    last                  \* observation of the last handler run (history variable)

vars == <<variant, gameStarted, loadPhase, MAP_WIDTH, MAP_HEIGHT, walls, obstacles,
          input, player, ghosts, powerups, speedBuffTime, speedBuffMultiplier,
          camX, camY, multiplayer, socket, reconnectTimer, timers, liveSockets,
          paused, sinceLastTime, otherPlayers, currentMapName, mapName, doorways,
          ticks, netEvents, origin, sinceBuff, probe, last>>

(***************************************************************************)
(* Bounds of the model.                                                    *)
(***************************************************************************)
\* Frames explored from a mid-game snapshot, and from the constructed state.
MaxTicks == 3
MaxStartTicks == 1
\* Socket events and server messages explored in one run.
MaxNetEvents == 3

(***************************************************************************)
(* Source variants and the features each one has.                          *)
(***************************************************************************)
Variants == {"game_a", "game_b", "part_001", "part_000", "part_002"}

\* Variants with walls/obstacles, moveAxis, loadMap, sounds, pause, dt, the buff state.
HasWalls(v) == v # "game_a"
\* Variants whose Player.update is the monkey-patched one (patchPlayerForSpeedBuff).
IsPatched(v) == v \in {"part_000", "part_001"}
\* Variants whose Player.update reads getWalkSpeed()/getSprintSpeed().
UsesBuffedSpeed(v) == v \in {"part_000", "part_001", "part_002"}
\* The variants with the WebSocket client.
HasNetwork(v) == v \in {"part_000", "part_001", "part_002"}
\* The variants that keep a smoothed camera offset (camX, camY).
HasCamera(v) == v \in {"part_000", "part_002"}

(***************************************************************************)
(* Program constants, in tenths of a pixel.                                *)
(***************************************************************************)
DETECTION_RADIUS == 1500
SPRINT_SPEED == 50
WALK_SPEED == 25
GHOST_SPEED == 15
GHOST_CHASE_BONUS == 8
POWERUP_SIZE == 240
PLAYER_SIZE == 320
GHOST_SIZE == 320
INIT_MAP_WIDTH == 19200
INIT_MAP_HEIGHT == 10800
GAME_A_MAP_WIDTH == 16000
GAME_A_MAP_HEIGHT == 12000
DIR_TIMER == 120
\* Delay of the reconnect timeout, in milliseconds.
RECONNECT_MS == 3000
\* The `|| 300` fallback of a remote player's coordinate, in tenths.
REMOTE_DEFAULT == 3000
\* Initial value of currentMapName.
DEFAULT_MAP == "mansion"
BUFF_MS == 6000
BUFF_MULT == 12
\* canvas.width / canvas.height come from index.html, which is not part of the
\* sources; 800 x 600 px is taken here.
VIEW_W == 8000
VIEW_H == 6000

(***************************************************************************)
(* Arithmetic helpers.                                                     *)
(***************************************************************************)
Max(a, b) == IF a >= b THEN a ELSE b
Min(a, b) == IF a <= b THEN a ELSE b
Abs(a) == IF a < 0 THEN -a ELSE a

\* a / b rounded to the nearest integer, b > 0, symmetric about 0.
RoundDiv(a, b) == IF a >= 0 THEN (2 * a + b) \div (2 * b)
                  ELSE -((2 * (-a) + b) \div (2 * b))

RECURSIVE SqrtSearch(_, _, _)
SqrtSearch(n, lo, hi) ==
    IF lo >= hi THEN lo
    ELSE LET mid == (lo + hi + 1) \div 2
         IN IF mid * mid <= n THEN SqrtSearch(n, mid, hi)
            ELSE SqrtSearch(n, lo, mid - 1)

\* floor(sqrt(n)) for 0 <= n < 2^31
ISqrt(n) == SqrtSearch(n, 0, 46340)

\* Math.hypot(ax - bx, ay - by) squared: exact in integers.
Dist2(ax, ay, bx, by) == (ax - bx) * (ax - bx) + (ay - by) * (ay - by)

\* v * (1 / Math.sqrt(2)), rounded to the nearest tenth.
DiagScale(v) == RoundDiv(v * 7071, 10000)

clamp(v, lo, hi) == Max(lo, Min(hi, v))

(***************************************************************************)
(* Geometry / collision engine.                                            *)
(***************************************************************************)
\* aabbRectHit(ax, ay, aw, ah, bx, by, bw, bh), applied to the argument list `a`
\* of a call.  A JavaScript call may pass fewer arguments than parameters: the
\* missing ones are undefined, `by + bh` is then NaN and `ay < NaN` is false,
\* so the conjunction is false.
\* A variation in which touching rectangles count as a hit.
aabbRectHitTouching(a) ==
    IF Len(a) < 8 THEN FALSE
    ELSE /\ a[1] <= a[5] + a[7]
         /\ a[1] + a[3] >= a[5]
         /\ a[2] <= a[6] + a[8]
         /\ a[2] + a[4] >= a[6]

aabbRectHit(a) ==
    IF Len(a) < 8 THEN FALSE
    ELSE /\ a[1] < a[5] + a[7]
         /\ a[1] + a[3] > a[5]
         /\ a[2] < a[6] + a[8]
         /\ a[2] + a[4] > a[6]

\* aabbEntityHit(A, B); also collide(a, b) / entityCollide(a, b) of game.js,
\* which spell the same four comparisons out.
aabbEntityHit(A, B) ==
    aabbRectHit(<<A.x, A.y, A.size, A.size, B.x, B.y, B.size, B.size>>)

\* aabbCollideRect of game.js second program: a square against a rectangle.
aabbCollideRect(x, y, size, rx, ry, rw, rh) ==
    /\ x < rx + rw
    /\ x + size > rx
    /\ y < ry + rh
    /\ y + size > ry

\* The rectangle of side `size` at (x, y) overlaps a wall or an obstacle.
\* (Not a function of the source: the loop conditions of moveAxis.)
HitsAnyRect(x, y, size) ==
    \/ \E i \in DOMAIN walls :
          aabbRectHit(<<x, y, size, size, walls[i].x, walls[i].y, walls[i].w, walls[i].h>>)
    \/ \E i \in DOMAIN obstacles :
          aabbRectHit(<<x, y, size, size,
                        obstacles[i].x, obstacles[i].y, obstacles[i].w, obstacles[i].h>>)

\* moveAxis / tryMoveAxis: the snapped nx, ny of the hit branch are dead stores;
\* the returned coordinate is picked by `dx !== 0` on a hit and on a miss.
moveAxis(x, y, size, dx, dy) ==
    LET nx == x + dx
        ny == y + dy
    IN IF HitsAnyRect(nx, ny, size)
       THEN (IF dx # 0 THEN x ELSE y)
       ELSE (IF dx # 0 THEN nx ELSE ny)

\* hitsAnyCollision of game.js (seven-parameter aabbCollideRect, called with seven).
hitsAnyCollision(x, y, size) == HitsAnyRect(x, y, size)

\* hitsCollision of part_000/001/002: calls the eight-parameter aabbRectHit with
\* seven arguments (x, y, size, w.x, w.y, w.w, w.h).
hitsCollision(x, y, size) ==
    \/ \E i \in DOMAIN walls :
          aabbRectHit(<<x, y, size, walls[i].x, walls[i].y, walls[i].w, walls[i].h>>)
    \/ \E i \in DOMAIN obstacles :
          aabbRectHit(<<x, y, size,
                        obstacles[i].x, obstacles[i].y, obstacles[i].w, obstacles[i].h>>)

(***************************************************************************)
(* Speed buff getters.                                                     *)
(***************************************************************************)
BuffFactor(buffTime, buffMult) == IF buffTime > 0 THEN buffMult ELSE 10

\* A variation in which the multiplier outlives the timer.
getWalkSpeedSticky(buffTime, buffMult) == RoundDiv(WALK_SPEED * buffMult, 10)
getWalkSpeed(buffTime, buffMult) == (WALK_SPEED * BuffFactor(buffTime, buffMult)) \div 10
getSprintSpeed(buffTime, buffMult) == (SPRINT_SPEED * BuffFactor(buffTime, buffMult)) \div 10

(***************************************************************************)
(* Input.                                                                  *)
(***************************************************************************)
Keys == {"w", "a", "s", "d", "arrowup", "arrowdown", "arrowleft", "arrowright", "shift"}

KeyUp(in) == "w" \in in \/ "arrowup" \in in
KeyDown(in) == "s" \in in \/ "arrowdown" \in in
KeyLeft(in) == "a" \in in \/ "arrowleft" \in in
KeyRight(in) == "d" \in in \/ "arrowright" \in in
KeyShift(in) == "shift" \in in

(***************************************************************************)
(* Player.update.  Result: the player after the update, the input-derived  *)
(* delta (dx, dy) before collision resolution, the values (rx, ry) the two *)
(* per-axis calls returned (before the clamp), and the sound triggers.     *)
(***************************************************************************)
\* game.js first program: position changed directly, y first; no walls.
PlayerUpdateA(p, in) ==
    LET spr == KeyShift(in)
        spd == IF spr THEN SPRINT_SPEED ELSE WALK_SPEED
        dy == (IF KeyDown(in) THEN spd ELSE 0) - (IF KeyUp(in) THEN spd ELSE 0)
        dx == (IF KeyRight(in) THEN spd ELSE 0) - (IF KeyLeft(in) THEN spd ELSE 0)
    IN [player |-> [p EXCEPT !.sprinting = spr, !.speed = spd,
                             !.x = clamp(p.x + dx, 0, MAP_WIDTH - p.size),
                             !.y = clamp(p.y + dy, 0, MAP_HEIGHT - p.size)],
        dx |-> dx, dy |-> dy, rx |-> p.x + dx, ry |-> p.y + dy, sounds |-> <<>>]

\* A variation that always moves at sprint speed.
PlayerSpeedSprintOnly(v, spr, buffTime, buffMult) == SPRINT_SPEED

\* Speed read by Player.update: constants in game.js, buffed getters elsewhere.
PlayerSpeed(v, spr, buffTime, buffMult) ==
    IF UsesBuffedSpeed(v)
    THEN (IF spr THEN getSprintSpeed(buffTime, buffMult) ELSE getWalkSpeed(buffTime, buffMult))
    ELSE (IF spr THEN SPRINT_SPEED ELSE WALK_SPEED)

\* Player.update of game.js second program and part_002, and the patched update
\* of part_000/part_001, which puts sprinting and speed back at its end.
PlayerUpdateB(v, p, in, buffTime, buffMult) ==
    LET spr == KeyShift(in)
        spd == PlayerSpeed(v, spr, buffTime, buffMult)
        dy0 == (IF KeyDown(in) THEN spd ELSE 0) - (IF KeyUp(in) THEN spd ELSE 0)
        dx0 == (IF KeyRight(in) THEN spd ELSE 0) - (IF KeyLeft(in) THEN spd ELSE 0)
        diag == dx0 # 0 /\ dy0 # 0
        dx == IF diag THEN DiagScale(dx0) ELSE dx0
        dy == IF diag THEN DiagScale(dy0) ELSE dy0
        x1 == moveAxis(p.x, p.y, p.size, dx, 0)
        y1 == moveAxis(x1, p.y, p.size, 0, dy)
        x2 == clamp(x1, 0, MAP_WIDTH - p.size)
        y2 == clamp(y1, 0, MAP_HEIGHT - p.size)
    IN [player |-> [p EXCEPT !.x = x2, !.y = y2,
                             !.sprinting = IF IsPatched(v) THEN p.sprinting ELSE spr,
                             !.speed = IF IsPatched(v) THEN p.speed ELSE spd],
        dx |-> dx, dy |-> dy, rx |-> x1, ry |-> y1,
        sounds |-> IF dx # 0 \/ dy # 0 THEN <<[key |-> "footsteps", src |-> 0]>> ELSE <<>>]

PlayerUpdate(v, p, in, buffTime, buffMult) ==
    IF v = "game_a" THEN PlayerUpdateA(p, in)
    ELSE PlayerUpdateB(v, p, in, buffTime, buffMult)

(***************************************************************************)
(* Ghost.update.  `hd` is the pair Math.random() yields for the heading    *)
(* when the wander timer has run out (hundredths of the unit).             *)
(***************************************************************************)
\* this.dx * this.speed: heading component (hundredths) times speed, in tenths.
WanderStep(h, spd) == RoundDiv(h * spd, 100)

\* Math.cos(angle) * spd and Math.sin(angle) * spd for the angle from the ghost
\* to the target; atan2(0, 0) is 0, so a ghost on its target heads right.
ChaseStepX(g, t, spd) ==
    LET d2 == Dist2(t.x, t.y, g.x, g.y)
    IN IF d2 = 0 THEN spd ELSE RoundDiv(spd * (t.x - g.x), Max(1, ISqrt(d2)))
ChaseStepY(g, t, spd) ==
    LET d2 == Dist2(t.x, t.y, g.x, g.y)
    IN IF d2 = 0 THEN 0 ELSE RoundDiv(spd * (t.y - g.y), Max(1, ISqrt(d2)))

\* Variations of the detection rule, used to show that the detection
\* properties below depend on it: detection that ignores the gait,
GhostDetectAnyGait(v, g, p) ==
    LET d2 == Dist2(p.x, p.y, g.x, g.y)
    IN IF d2 < DETECTION_RADIUS * DETECTION_RADIUS
       THEN [ghost |-> [g EXCEPT !.state = "chase", !.target = "player",
                                 !.chasing = (v # "game_a")],
             alert |-> (v # "game_a" /\ ~g.chasing)]
       ELSE IF g.state = "chase" /\ d2 > (2 * DETECTION_RADIUS) * (2 * DETECTION_RADIUS)
       THEN [ghost |-> IF v = "game_a" THEN [g EXCEPT !.state = "wander"]
                       ELSE [g EXCEPT !.state = "wander", !.chasing = FALSE,
                                      !.target = "null"],
             alert |-> FALSE]
       ELSE [ghost |-> g, alert |-> FALSE]

\* a chase given up at the detection radius itself,
GhostDetectNoHysteresis(v, g, p) ==
    LET d2 == Dist2(p.x, p.y, g.x, g.y)
    IN IF d2 < DETECTION_RADIUS * DETECTION_RADIUS /\ p.sprinting
       THEN [ghost |-> [g EXCEPT !.state = "chase", !.target = "player",
                                 !.chasing = (v # "game_a")],
             alert |-> (v # "game_a" /\ ~g.chasing)]
       ELSE IF g.state = "chase" /\ d2 > DETECTION_RADIUS * DETECTION_RADIUS
       THEN [ghost |-> IF v = "game_a" THEN [g EXCEPT !.state = "wander"]
                       ELSE [g EXCEPT !.state = "wander", !.chasing = FALSE,
                                      !.target = "null"],
             alert |-> FALSE]
       ELSE [ghost |-> g, alert |-> FALSE]

\* and an alert requested in every frame of a detection.
GhostDetectLevelAlert(v, g, p) ==
    LET d2 == Dist2(p.x, p.y, g.x, g.y)
    IN IF d2 < DETECTION_RADIUS * DETECTION_RADIUS /\ p.sprinting
       THEN [ghost |-> [g EXCEPT !.state = "chase", !.target = "player",
                                 !.chasing = (v # "game_a")],
             alert |-> (v # "game_a")]
       ELSE IF g.state = "chase" /\ d2 > (2 * DETECTION_RADIUS) * (2 * DETECTION_RADIUS)
       THEN [ghost |-> IF v = "game_a" THEN [g EXCEPT !.state = "wander"]
                       ELSE [g EXCEPT !.state = "wander", !.chasing = FALSE,
                                      !.target = "null"],
             alert |-> FALSE]
       ELSE [ghost |-> g, alert |-> FALSE]

\* The state transition at the head of Ghost.update.
GhostDetect(v, g, p) ==
    LET d2 == Dist2(p.x, p.y, g.x, g.y)
    IN IF d2 < DETECTION_RADIUS * DETECTION_RADIUS /\ p.sprinting
       THEN [ghost |-> [g EXCEPT !.state = "chase", !.target = "player",
                                 !.chasing = (v # "game_a")],
             alert |-> (v # "game_a" /\ ~g.chasing)]
       ELSE IF g.state = "chase" /\ d2 > (2 * DETECTION_RADIUS) * (2 * DETECTION_RADIUS)
       THEN [ghost |-> IF v = "game_a" THEN [g EXCEPT !.state = "wander"]
                       ELSE [g EXCEPT !.state = "wander", !.chasing = FALSE,
                                      !.target = "null"],
             alert |-> FALSE]
       ELSE [ghost |-> g, alert |-> FALSE]

\* A variation in which the timer restarts one short, so that a resample
\* comes every 120 ticks.
WanderTimerShort(timer, resample) ==
    IF resample THEN DIR_TIMER - 1 ELSE timer - 1
\* The timer of the wander branch: changeDirTimer = 120 on a resample,
\* changeDirTimer-- otherwise.
WanderTimer(timer, resample) ==
    IF resample THEN DIR_TIMER ELSE timer - 1

\* The motion part of Ghost.update in game.js first program: no walls.
GhostMoveA(g, p, hd) ==
    LET chase == g.state = "chase" /\ g.target # "null"
        spd == GHOST_SPEED + GHOST_CHASE_BONUS
        resample == ~chase /\ g.changeDirTimer <= 0
        hx == IF resample THEN hd[1] ELSE g.dx
        hy == IF resample THEN hd[2] ELSE g.dy
        x1 == IF chase THEN g.x + ChaseStepX(g, p, spd) ELSE g.x + WanderStep(hx, GHOST_SPEED)
        y1 == IF chase THEN g.y + ChaseStepY(g, p, spd) ELSE g.y + WanderStep(hy, GHOST_SPEED)
    IN [g EXCEPT !.dx = hx, !.dy = hy,
                 !.changeDirTimer = IF chase THEN g.changeDirTimer
                                    ELSE WanderTimer(g.changeDirTimer, resample),
                 !.x = clamp(x1, 0, MAP_WIDTH - g.size),
                 !.y = clamp(y1, 0, MAP_HEIGHT - g.size)]

\* The motion part of Ghost.update elsewhere: both axes through moveAxis.
\* Math.cos of a double is never 0, and a resampled heading is 0 only when it
\* is drawn so, so `dx !== 0` holds in the x call even when the displacement
\* is below a tenth; x is then kept.
GhostMoveB(g, p, hd) ==
    LET chase == g.state = "chase" /\ g.target # "null"
        spd == GHOST_SPEED + GHOST_CHASE_BONUS
        resample == ~chase /\ g.changeDirTimer <= 0
        hx == IF resample THEN hd[1] ELSE g.dx
        hy == IF resample THEN hd[2] ELSE g.dy
        vx == IF chase THEN ChaseStepX(g, p, spd) ELSE WanderStep(hx, GHOST_SPEED)
        vy == IF chase THEN ChaseStepY(g, p, spd) ELSE WanderStep(hy, GHOST_SPEED)
        x1 == IF vx = 0 /\ (chase \/ hx # 0) THEN g.x ELSE moveAxis(g.x, g.y, g.size, vx, 0)
        y1 == moveAxis(x1, g.y, g.size, 0, vy)
    IN [g EXCEPT !.dx = hx, !.dy = hy,
                 !.changeDirTimer = IF chase THEN g.changeDirTimer
                                    ELSE WanderTimer(g.changeDirTimer, resample),
                 !.x = clamp(x1, 0, MAP_WIDTH - g.size),
                 !.y = clamp(y1, 0, MAP_HEIGHT - g.size)]

GhostUpdate(v, g, p, hd) ==
    LET det == GhostDetect(v, g, p)
    IN [ghost |-> IF v = "game_a" THEN GhostMoveA(det.ghost, p, hd)
                  ELSE GhostMoveB(det.ghost, p, hd),
        alert |-> det.alert]

(***************************************************************************)
(* Spawning.                                                               *)
(***************************************************************************)
\* The candidate list of placePlayerAtSafeSpawn; `m` is the corner margin
\* (128 px in game.js, 160 px in part_000/001/002).
SpawnCandidates(m) ==
    << <<640, 640>>,
       <<MAP_WIDTH - m, 640>>,
       <<640, MAP_HEIGHT - m>>,
       <<MAP_WIDTH - m, MAP_HEIGHT - m>>,
       <<MAP_WIDTH \div 2 - PLAYER_SIZE \div 2, MAP_HEIGHT \div 2 - PLAYER_SIZE \div 2>>,
       <<2000, 2000>>,
       <<3000, 3000>> >>

SpawnMargin(v) == IF v = "game_b" THEN 1280 ELSE 1600

SpawnBlocked(v, c) ==
    IF v = "game_b" THEN hitsAnyCollision(c[1], c[2], PLAYER_SIZE)
    ELSE hitsCollision(c[1], c[2], PLAYER_SIZE)

\* placePlayerAtSafeSpawn: the position the player is put at.
placePlayerAtSafeSpawn(v) ==
    LET cs == SpawnCandidates(SpawnMargin(v))
        free == {i \in DOMAIN cs : ~SpawnBlocked(v, cs[i])}
    IN IF free = {} THEN <<3000, 3000>>
       ELSE LET c == cs[CHOOSE i \in free : \A j \in free : i <= j]
            IN <<clamp(c[1], 0, MAP_WIDTH - PLAYER_SIZE),
                 clamp(c[2], 0, MAP_HEIGHT - PLAYER_SIZE)>>

\* Where a caught player is put: a fixed point in game.js first program.
RespawnPoint(v) == IF v = "game_a" THEN <<2000, 2000>> ELSE placePlayerAtSafeSpawn(v)

(***************************************************************************)
(* The ghost-collision step of update().                                   *)
(* Result: the player after it, the number of times lives was decremented, *)
(* and the sound triggers.                                                 *)
(***************************************************************************)
\* game.js first program: every colliding ghost, in order, against the player as
\* the previous hit left it; `lives--` with no floor and no break.
RECURSIVE CollideA(_, _, _, _)
CollideA(gs, i, p, hits) ==
    IF i > Len(gs) THEN [player |-> p, hits |-> hits, sounds |-> <<>>]
    ELSE IF aabbEntityHit(gs[i], p)
         THEN CollideA(gs, i + 1,
                       [p EXCEPT !.lives = p.lives - 1,
                                 !.x = RespawnPoint("game_a")[1],
                                 !.y = RespawnPoint("game_a")[2]],
                       hits + 1)
         ELSE CollideA(gs, i + 1, p, hits)

\* Elsewhere: the first colliding ghost only (break), lives floored at 0.
CollideB(v, gs, p) ==
    IF \E i \in DOMAIN gs : aabbEntityHit(gs[i], p)
    THEN LET at == RespawnPoint(v)
         IN [player |-> [p EXCEPT !.lives = Max(0, p.lives - 1), !.x = at[1], !.y = at[2]],
             hits |-> 1,
             sounds |-> <<[key |-> "caught", src |-> 0]>>]
    ELSE [player |-> p, hits |-> 0, sounds |-> <<>>]

CollisionStep(v, gs, p) ==
    IF v = "game_a" THEN CollideA(gs, 1, p, 0) ELSE CollideB(v, gs, p)

(***************************************************************************)
(* The power-up step of update().                                          *)
(***************************************************************************)
\* The overlap test of the power-up loop: collide(pu, player) and
\* entityCollide({player}, {pu}) in game.js; in part_000/001/002
\* aabbRectHit(player.x, player.y, player.size, pu.x, pu.y, pu.size, pu.size),
\* seven arguments for eight parameters.
PowerupHit(v, p, pu) ==
    IF v \in {"game_a", "game_b"} THEN aabbEntityHit(pu, p)
    ELSE aabbRectHit(<<p.x, p.y, p.size, pu.x, pu.y, pu.size, pu.size>>)

\* Indices of the power-ups the loop collects (the player does not move in it).
Collected(v, p, pus) == {i \in DOMAIN pus : pus[i].active /\ PowerupHit(v, p, pus[i])}

\* PowerUp.apply summed over the collected ones; game.js first program adds
\* 1.5 to player.speed for "speed" (overwritten by the next Player.update).
PowerupStep(v, p, pus, buffTime, buffMult) ==
    LET got == Collected(v, p, pus)
        shields == Cardinality({i \in got : pus[i].type = "shield"})
        speeds == {i \in got : pus[i].type = "speed"}
    IN [player |-> [p EXCEPT !.lives = p.lives + shields,
                             !.speed = IF v = "game_a" THEN p.speed + 15 * Cardinality(speeds)
                                       ELSE p.speed],
        powerups |-> [i \in DOMAIN pus |->
                        IF i \in got THEN [pus[i] EXCEPT !.active = FALSE] ELSE pus[i]],
        buffTime |-> IF v # "game_a" /\ speeds # {} THEN BUFF_MS ELSE buffTime,
        buffMult |-> IF v # "game_a" /\ speeds # {} THEN BUFF_MULT ELSE buffMult,
        collected |-> got,
        sounds |-> IF v = "game_a" THEN <<>>
                   ELSE [k \in 1..Cardinality(got) |-> [key |-> "powerup", src |-> 0]]]

(***************************************************************************)
(* Messages the client sends during a frame.  `online` is                  *)
(* multiplayer && socket && socket.readyState === WebSocket.OPEN.          *)
(***************************************************************************)
Move(x, y, sprinting) == [type |-> "move", x |-> x, y |-> y, sprinting |-> sprinting]
PowerupTaken(x, y) == [type |-> "powerupTaken", x |-> x, y |-> y, sprinting |-> FALSE]
Hello == [type |-> "hello", x |-> 0, y |-> 0, sprinting |-> FALSE]

\* A variation that reports the position in every frame.
MoveReportAlways(v, pu, in, online) ==
    IF HasNetwork(v) /\ online THEN <<Move(pu.player.x, pu.player.y, KeyShift(in))>> ELSE <<>>

\* The tail of Player.update: the move message, sent with the footstep
\* trigger; `this.sprinting` is still the key state at that point.
MoveReport(v, pu, in, online) ==
    IF HasNetwork(v) /\ online /\ (pu.dx # 0 \/ pu.dy # 0)
    THEN <<Move(pu.player.x, pu.player.y, KeyShift(in))>>
    ELSE <<>>

\* respawnPlayer: the position sync that follows placePlayerAtSafeSpawn.
RespawnReport(v, col, online) ==
    IF HasNetwork(v) /\ online /\ col.hits > 0
    THEN <<Move(col.player.x, col.player.y, FALSE)>>
    ELSE <<>>

\* The power-up loop: one powerupTaken per collected power-up, in order.
RECURSIVE PowerupReport(_, _, _, _, _)
PowerupReport(v, got, pus, online, i) ==
    IF i > Len(pus) \/ ~(HasNetwork(v) /\ online) THEN <<>>
    ELSE (IF i \in got THEN <<PowerupTaken(pus[i].x, pus[i].y)>> ELSE <<>>)
         \o PowerupReport(v, got, pus, online, i + 1)

(***************************************************************************)
(* Camera.                                                                 *)
(***************************************************************************)
\* CAMERA_ZOOM in tenths (2.0 in part_002, 1.6 in part_000, no zoom elsewhere)
\* and CAMERA_LERP in hundredths (0.22 in part_002, 0.2 in part_000).
CAMERA_ZOOM(v) == CASE v = "part_002" -> 20 [] v = "part_000" -> 16 [] OTHER -> 10
CAMERA_LERP(v) == IF v = "part_002" THEN 22 ELSE 20

\* The part of the world the canvas shows.
getViewSize(v) == [viewW |-> (VIEW_W * 10) \div CAMERA_ZOOM(v),
                   viewH |-> (VIEW_H * 10) \div CAMERA_ZOOM(v)]

\* One axis of the camera with no clamp at all.
CameraAxisUnclamped(v, pos, mapSize, view) == pos - view \div 2

\* One axis of getTargetCamera / getCamera: the player centred, clamped.
CameraAxis(v, pos, mapSize, view) ==
    IF v = "game_a" THEN Max(0, Min(mapSize - view, pos - view \div 2))
    ELSE clamp(pos - view \div 2, 0, Max(0, mapSize - view))

getTargetCamera(v, p) ==
    [targetX |-> CameraAxis(v, p.x, MAP_WIDTH, getViewSize(v).viewW),
     targetY |-> CameraAxis(v, p.y, MAP_HEIGHT, getViewSize(v).viewH)]

\* updateCamera, one axis: cam += (target - cam) * CAMERA_LERP.
LerpAxis(v, cam, target) == cam + RoundDiv((target - cam) * CAMERA_LERP(v), 100)

\* A variation in which the load takes a smoothing step instead.
SnapAxisSmoothed(v, cam, target) == cam + RoundDiv((target - cam) * CAMERA_LERP(v), 100)

\* The end of loadMap, one axis: cam = target.
SnapAxis(v, cam, target) == target

(***************************************************************************)
(* Messages of the server and the remote-player registry.                  *)
(* A message is [type, id, x, y, name, map, players]; a field the message  *)
(* does not carry is "" (0 for a coordinate, <<>> for players), which is   *)
(* also what the handler's `||` fallbacks treat as missing.                *)
(***************************************************************************)
ServerMsg(type, id, x, y, name, map, players) ==
    [type |-> type, id |-> id, x |-> x, y |-> y, name |-> name, map |-> map,
     players |-> players]
TakenMsg(x, y) == ServerMsg("powerupTaken", "", x, y, "", "", <<>>)
PongMsg == ServerMsg("pong", "", 0, 0, "", "", <<>>)
WelcomeMsg(map, players) == ServerMsg("welcome", "", 0, 0, "", map, players)
JoinedMsg(id, x, y, name) == ServerMsg("playerJoined", id, x, y, name, "", <<>>)
MovedMsg(id, x, y) == ServerMsg("playerMoved", id, x, y, "", "", <<>>)
LeftMsg(id) == ServerMsg("playerLeft", id, 0, 0, "", "", <<>>)
\* An entry of the players array of a welcome.
Listed(id, x, y, name) == [id |-> id, x |-> x, y |-> y, name |-> name]

\* The case labels of handleServerMessage.
HandledTypes == {"welcome", "playerJoined", "playerMoved", "playerLeft", "powerupTaken", "pong"}

\* new Player(id, x || 300, y || 300, "cyan"): a coordinate of 0 is falsy too.
NewRemote(id, x, y) ==
    [id |-> id,
     x |-> IF x = 0 THEN REMOTE_DEFAULT ELSE x,
     y |-> IF y = 0 THEN REMOTE_DEFAULT ELSE y,
     name |-> IF id = "me" THEN "You" ELSE id]
\* otherPlayers[id].name = name || id
Named(r, name) == [r EXCEPT !.name = IF name = "" THEN r.id ELSE name]

Has(reg, id) == \E r \in reg : r.id = id
Without(reg, id) == {r \in reg : r.id # id}
Put(reg, r) == Without(reg, r.id) \cup {r}

\* A variation of otherPlayersClear that deletes nothing.
otherPlayersKeep(reg) == reg
otherPlayersClear(reg) == {}

\* The forEach of case "welcome": part_002 adds a listed player unless the id
\* is already there, part_000/part_001 add (or overwrite) unless the id is "me".
RECURSIVE WelcomePlayers(_, _, _, _)
WelcomePlayers(v, reg, ps, i) ==
    IF i > Len(ps) THEN reg
    ELSE LET p == ps[i]
             add == IF v = "part_002" THEN ~Has(reg, p.id) ELSE p.id # "me"
         IN WelcomePlayers(v,
                           IF add THEN Put(reg, Named(NewRemote(p.id, p.x, p.y), p.name))
                           ELSE reg,
                           ps, i + 1)

\* handleServerMessage, as far as it writes otherPlayers.
handleRegistry(v, reg, msg) ==
    CASE msg.type = "welcome" ->
            WelcomePlayers(v, otherPlayersClear(reg), msg.players, 1)
      [] msg.type = "playerJoined" ->
            IF Has(reg, msg.id) THEN reg
            ELSE Put(reg, Named(NewRemote(msg.id, msg.x, msg.y), msg.name))
      [] msg.type = "playerMoved" ->
            IF Has(reg, msg.id)
            THEN {IF r.id = msg.id THEN [r EXCEPT !.x = msg.x, !.y = msg.y] ELSE r : r \in reg}
            ELSE Put(reg, NewRemote(msg.id, msg.x, msg.y))
      [] msg.type = "playerLeft" -> Without(reg, msg.id)
      [] OTHER -> reg

\* A variation in which a message of any type may rename the current map.
handleMapNameAnyType(cur, msg) ==
    IF msg.map # "" /\ msg.map # cur THEN msg.map ELSE cur

\* handleServerMessage, as far as it writes currentMapName.
handleMapName(cur, msg) ==
    IF msg.type = "welcome" /\ msg.map # "" /\ msg.map # cur THEN msg.map ELSE cur

\* A payload of the socket: text that JSON.parse accepts, giving msg, or not.
Payload(m) == [parses |-> TRUE, msg |-> m]
Garbage == [parses |-> FALSE, msg |-> PongMsg]

\* A variation of the message listener without its try/catch.
ListenerNoCatch(pl) == [handled |-> pl.parses, raised |-> ~pl.parses]
\* The message listener: try { handleServerMessage(JSON.parse(ev.data)) } catch (_) {}
Listener(pl) == [handled |-> pl.parses, raised |-> FALSE]

(***************************************************************************)
(* External inputs, drawn from small sets.                                 *)
(***************************************************************************)
\* Snapshots of the held keys a frame can see.
InputSnapshots ==
    { {}, {"d"}, {"a", "d"}, {"s", "shift"}, {"arrowdown", "arrowright"} }

\* Milliseconds between two frames.
FrameTimes == {16, 3000}

\* Headings (dx, dy) a resample can produce, in hundredths: normalised to unit
\* length in every variant but game.js first program, where Math.random()*2-1
\* is used as is.
Headings(v) == IF v = "game_a" THEN {<<0, 99>>, <<-100, -50>>}
               ELSE {<<60, 80>>, <<-71, -71>>}

\* Map geometry documents: none / unreachable, or a wall and an obstacle near
\* the first spawn candidate.
Rect(x, y, w, h) == [x |-> x, y |-> y, w |-> w, h |-> h]
EmptyLayout == [walls |-> <<>>, obstacles |-> <<>>]
HallLayout == [walls |-> <<Rect(1000, 1000, 500, 500)>>,
               obstacles |-> <<Rect(640, 2000, 400, 400)>>]
\* A document whose wall covers the first spawn candidate (64, 64).
BlockedLayout == [walls |-> <<Rect(500, 500, 400, 400)>>, obstacles |-> <<>>]
\* A document with a piece of furniture where the first ghost is created,
\* (800, 600) in every variant that loads a map.
HauntedLayout == [walls |-> <<>>, obstacles |-> <<Rect(7900, 5900, 600, 600)>>]
Layouts == {EmptyLayout, HallLayout, BlockedLayout, HauntedLayout}

\* Messages of the server: a power-up taken 14 px from the shield power-up,
\* one taken exactly 20 px from it, a pong, and a welcome that names another
\* map and lists one player.
ServerMessages ==
    { TakenMsg(5100, 5100),
      TakenMsg(5200, 5000),
      PongMsg,
      WelcomeMsg("crypt", <<Listed("p1", 1000, 2000, "Ann")>>) }

\* The payloads explored where only the socket is exercised: the above, the
\* registry messages, a welcome that lists the local id "me" and one id
\* twice, a message of an unhandled type, and text that is no JSON.
NetPayloads ==
    {Payload(m) : m \in ServerMessages}
    \cup { Payload(WelcomeMsg("", <<Listed("me", 1000, 1000, ""),
                                    Listed("p2", 0, 2000, ""),
                                    Listed("p2", 4000, 4000, "Bob")>>)),
           Payload(JoinedMsg("p1", 3000, 3000, "")),
           Payload(MovedMsg("p1", 0, 5000)),
           Payload(MovedMsg("p2", 6000, 0)),
           Payload(LeftMsg("p1")),
           Payload(ServerMsg("chat", "p1", 0, 0, "hi", "crypt", <<>>)),
           Garbage }

\* Outcomes of loading the geometry document of a map: fetched and parsed,
\* with the arrays of a layout; not fetched; fetched but no JSON; or parsed
\* with a walls array and an `obstacles` that is no array.
DoorOf(l) == IF l.walls = <<>> THEN <<>> ELSE <<Rect(3000, 1000, 300, 300)>>
GeometryDoc(kind, l) ==
    [kind |-> kind, walls |-> l.walls, obstacles |-> l.obstacles, doorways |-> DoorOf(l)]
GeometryDocs ==
    {GeometryDoc("ok", l) : l \in Layouts}
    \cup {GeometryDoc(k, HallLayout) : k \in {"unreachable", "unparseable", "badObstacles"}}

\* A variation of the load that keeps the arrays built before the failure.
loadGeometryPartial(doc) ==
    CASE doc.kind = "ok" ->
            [walls |-> doc.walls, obstacles |-> doc.obstacles, doorways |-> doc.doorways]
      [] doc.kind = "badObstacles" ->
            [walls |-> doc.walls, obstacles |-> <<>>, doorways |-> <<>>]
      [] OTHER -> [walls |-> <<>>, obstacles |-> <<>>, doorways |-> <<>>]

\* The try/catch of loadMap: the three arrays of the document, or, when the
\* fetch, the parse or one of the three .map(...) calls throws, three empty ones.
loadGeometry(doc) ==
    IF doc.kind = "ok"
    THEN [walls |-> doc.walls, obstacles |-> doc.obstacles, doorways |-> doc.doorways]
    ELSE [walls |-> <<>>, obstacles |-> <<>>, doorways |-> <<>>]

\* The button pressed on the home screen, and whether `new WebSocket` throws.
Modes == {"singleplayer", "multiplayer"}

\* Outcomes of loading the map image: onload with the image size, or onerror.
ImageResults == {[ok |-> TRUE, w |-> 4000, h |-> 3000], [ok |-> FALSE, w |-> 0, h |-> 0]}

(***************************************************************************)
(* Construction.                                                           *)
(***************************************************************************)
NewPlayer(x, y) ==
    [x |-> x, y |-> y, size |-> PLAYER_SIZE, speed |-> WALK_SPEED, lives |-> 3,
     sprinting |-> FALSE]

\* new Ghost(x, y).  The constructor's random heading is overwritten by the
\* first wander update (changeDirTimer starts at 0) before it is read.
NewGhost(x, y) ==
    [x |-> x, y |-> y, size |-> GHOST_SIZE, state |-> "wander", target |-> "null",
     dx |-> 0, dy |-> 0, changeDirTimer |-> 0, chasing |-> FALSE]

NewPowerUp(x, y, type) ==
    [x |-> x, y |-> y, size |-> POWERUP_SIZE, type |-> type, active |-> TRUE]

InitPlayer(v) == IF v = "game_a" THEN NewPlayer(2000, 2000) ELSE NewPlayer(3000, 3000)

InitGhosts(v) ==
    IF v = "game_a"
    THEN <<NewGhost(5000, 4000), NewGhost(9000, 8000), NewGhost(12000, 6000)>>
    ELSE <<NewGhost(8000, 6000), NewGhost(12000, 7000)>>

InitPowerups(v) ==
    IF v = "game_a"
    THEN <<NewPowerUp(3000, 3000, "shield"), NewPowerUp(11000, 9000, "speed")>>
    ELSE <<NewPowerUp(5000, 5000, "shield"), NewPowerUp(14000, 9000, "speed")>>

\* What a handler saw of the network and the map document: the payload, the
\* registry and map name it started from, whether an error left the
\* listener, the kind of geometry document, the timeout it armed, and the
\* type and id of the message handled in the step before ("" when that step
\* handled none).
NoNet ==
    [msg |-> PongMsg, parses |-> TRUE, raised |-> FALSE, otherPlayers |-> {},
     currentMapName |-> "", doc |-> "none", armed |-> FALSE, delay |-> 0,
     prior |-> [type |-> "", id |-> ""]]

\* The observation record of a handler that is no tick, run with player p,
\* ghosts gs, power-ups pus, buff (bt, bm) and camera cam, having sent the
\* messages `sent`.
Quiet(op, p, gs, pus, bt, bm, cam, sent) ==
    [op |-> op,
     prev |-> [player |-> p, ghosts |-> gs, powerups |-> pus, buffTime |-> bt, buffMult |-> bm,
               camX |-> cam[1], camY |-> cam[2]],
     online |-> FALSE,
     moved |-> p, dx |-> 0, dy |-> 0, rx |-> p.x, ry |-> p.y, atPowerups |-> p,
     buffAt |-> bt, hits |-> 0, alerts |-> {}, collected |-> {}, sounds |-> <<>>,
     updateSent |-> <<>>, sent |-> sent, net |-> NoNet]

Obs(op) == Quiet(op, player, ghosts, powerups, speedBuffTime, speedBuffMultiplier,
                 <<camX, camY>>, <<>>)

\* No pair of rectangles under test.
NoProbe == [on |-> FALSE]

\* State right after the script has run: nothing started.
Constructed(v) ==
    /\ variant = v
    /\ gameStarted = FALSE
    /\ loadPhase = "none"
    /\ MAP_WIDTH = (IF v = "game_a" THEN GAME_A_MAP_WIDTH ELSE INIT_MAP_WIDTH)
    /\ MAP_HEIGHT = (IF v = "game_a" THEN GAME_A_MAP_HEIGHT ELSE INIT_MAP_HEIGHT)
    /\ walls = <<>>
    /\ obstacles = <<>>
    /\ input = {}
    /\ player = InitPlayer(v)
    /\ ghosts = InitGhosts(v)
    /\ powerups = InitPowerups(v)
    /\ speedBuffTime = 0
    /\ speedBuffMultiplier = 10
    /\ camX = 0
    /\ camY = 0
    /\ multiplayer = FALSE
    /\ socket = "null"
    /\ reconnectTimer = FALSE
    /\ timers = 0
    /\ otherPlayers = {}
    /\ currentMapName = DEFAULT_MAP
    /\ mapName = "none"
    /\ doorways = <<>>
    /\ liveSockets = 0
    /\ paused = FALSE
    /\ sinceLastTime = 0
    /\ ticks = 0
    /\ netEvents = 0
    /\ origin = "constructed"
    /\ sinceBuff = -1
    /\ probe = NoProbe
    /\ last = Quiet("init", InitPlayer(v), InitGhosts(v), InitPowerups(v), 0, 10, <<0, 0>>, <<>>)

(***************************************************************************)
(* Mid-game snapshots.  A run of the game reaches them after many frames   *)
(* (a ghost wanders 1.5 px a frame, the player walks 2.5 px), more than    *)
(* MaxTicks allows, so the initial states include them: the map is loaded  *)
(* (default 1920 x 1080 size, HallLayout geometry where the variant has    *)
(* walls), every rectangle is clear of the walls, and the ghosts' states   *)
(* are ones the variant can produce.                                       *)
(***************************************************************************)
Snapshots == {"spawned", "camp", "campLastLife", "detect", "band", "shield", "speed", "atWall"}

\* The snapshots taken of a multiplayer game with an open socket as well.
OnlineSnapshots == {"camp", "atWall"}

\* A ghost some frames into a wander leg.
WanderingGhost(x, y, timer) ==
    [NewGhost(x, y) EXCEPT !.dx = -71, !.dy = -71, !.changeDirTimer = timer]

\* A ghost that detected the sprinting player earlier.  The patched update of
\* part_000/part_001 never leaves player.sprinting true, so no ghost of those
\* variants has left wander.
ChasingGhost(v, x, y) ==
    IF IsPatched(v) THEN WanderingGhost(x, y, 60)
    ELSE [WanderingGhost(x, y, 60) EXCEPT !.state = "chase", !.target = "player",
                                          !.chasing = (v # "game_a")]

SpawnBase(v) == IF v = "game_a" THEN <<2000, 2000>> ELSE <<640, 640>>

SnapPlayer(v, k) ==
    LET b == SpawnBase(v)
        pu == InitPowerups(v)
    IN CASE k \in {"spawned", "camp"} -> NewPlayer(b[1], b[2])
         [] k = "campLastLife" -> [NewPlayer(b[1], b[2]) EXCEPT !.lives = 1]
         [] k \in {"detect", "band"} -> NewPlayer(6000, 6000)
         [] k = "shield" -> NewPlayer(pu[1].x - PLAYER_SIZE - 10, pu[1].y)
         [] k = "speed" -> NewPlayer(pu[2].x - PLAYER_SIZE - 10, pu[2].y)
         [] k = "atWall" -> NewPlayer(HallLayout.walls[1].x - PLAYER_SIZE - 10,
                                      HallLayout.walls[1].y)

SnapGhosts(v, k) ==
    LET b == SpawnBase(v)
        two == CASE k \in {"camp", "campLastLife"} ->
                      <<WanderingGhost(b[1] + 60, b[2], 60), WanderingGhost(b[1], b[2] + 160, 60)>>
                 [] k = "detect" ->
                      <<WanderingGhost(7480, 6000, 0), ChasingGhost(v, 6000, 4800)>>
                 [] k = "band" ->
                      <<ChasingGhost(v, 6000, 8500), ChasingGhost(v, 6000, 3010)>>
                 [] OTHER ->
                      <<WanderingGhost(8000, 6000, 1), WanderingGhost(12000, 7000, 60)>>
    IN IF v = "game_a" THEN Append(two, WanderingGhost(12000, 6000, 60)) ELSE two

MidGame(v, k, online) ==
    /\ variant = v
    /\ gameStarted = TRUE
    /\ loadPhase = (IF v = "game_a" THEN "none" ELSE "done")
    /\ MAP_WIDTH = (IF v = "game_a" THEN GAME_A_MAP_WIDTH ELSE INIT_MAP_WIDTH)
    /\ MAP_HEIGHT = (IF v = "game_a" THEN GAME_A_MAP_HEIGHT ELSE INIT_MAP_HEIGHT)
    /\ walls = (IF HasWalls(v) THEN HallLayout.walls ELSE <<>>)
    /\ obstacles = (IF HasWalls(v) THEN HallLayout.obstacles ELSE <<>>)
    /\ input = {}
    /\ player = SnapPlayer(v, k)
    /\ ghosts = SnapGhosts(v, k)
    /\ powerups = InitPowerups(v)
    /\ speedBuffTime = 0
    /\ speedBuffMultiplier = 10
    /\ camX = (IF HasCamera(v) THEN getTargetCamera(v, SnapPlayer(v, k)).targetX ELSE 0)
    /\ camY = (IF HasCamera(v) THEN getTargetCamera(v, SnapPlayer(v, k)).targetY ELSE 0)
    /\ multiplayer = online
    /\ socket = (IF online THEN "open" ELSE "null")
    /\ reconnectTimer = FALSE
    /\ timers = 0
    /\ otherPlayers = {}
    /\ currentMapName = DEFAULT_MAP
    /\ mapName = (IF v = "game_a" THEN "none" ELSE DEFAULT_MAP)
    /\ doorways = (IF HasWalls(v) THEN DoorOf(HallLayout) ELSE <<>>)
    /\ liveSockets = (IF online THEN 1 ELSE 0)
    /\ paused = FALSE
    /\ sinceLastTime = 0
    /\ ticks = 0
    /\ netEvents = 0
    /\ origin = "midGame"
    /\ sinceBuff = -1
    /\ probe = NoProbe
    /\ last = Quiet("init", SnapPlayer(v, k), SnapGhosts(v, k), InitPowerups(v), 0, 10,
                    <<camX, camY>>, <<>>)

Init ==
    \E v \in Variants :
        \/ Constructed(v)
        \/ \E k \in Snapshots : MidGame(v, k, FALSE)
        \/ \E k \in OnlineSnapshots : HasNetwork(v) /\ MidGame(v, k, TRUE)

(***************************************************************************)
(* How far a run is explored: frames and network events share one budget.  *)
(***************************************************************************)
StepBudget == IF origin = "constructed" THEN MaxStartTicks + 1 ELSE MaxTicks
MayTick ==
    /\ ticks < (IF origin = "constructed" THEN MaxStartTicks ELSE MaxTicks)
    /\ ticks + netEvents < StepBudget
MayNet ==
    /\ netEvents < MaxNetEvents
    /\ ticks + netEvents < StepBudget

(***************************************************************************)
(* startGame and the asynchronous loadMap.                                 *)
(***************************************************************************)
\* startGame: sets gameStarted; every variant but game.js first program then
\* calls loadMap, which runs up to its first await (the image load).
\* With the WebSocket client, "multiplayer" first connects: loadMap waits for
\* the promise of connectSocket, resolved by the socket's open event, or at
\* once when `new WebSocket` throws.
StartGame ==
    /\ ~gameStarted
    /\ gameStarted' = TRUE
    /\ \E mode \in Modes, throws \in BOOLEAN :
         /\ (throws => HasNetwork(variant) /\ mode = "multiplayer")
         /\ multiplayer' = (HasNetwork(variant) /\ mode = "multiplayer")
         /\ socket' = (IF multiplayer' /\ ~throws THEN "connecting" ELSE "null")
         /\ loadPhase' = (CASE variant = "game_a" -> "none"
                            [] multiplayer' /\ ~throws -> "socket"
                            [] OTHER -> "image")
    /\ liveSockets' = (IF socket' = "connecting" THEN liveSockets + 1 ELSE liveSockets)
    /\ mapName' = (IF loadPhase' = "image" THEN currentMapName ELSE mapName)
    /\ currentMapName' = currentMapName
    /\ last' = Obs("startGame")
    /\ UNCHANGED <<paused, sinceLastTime, variant, MAP_WIDTH, MAP_HEIGHT, walls, obstacles, input, player, ghosts,
                   powerups, speedBuffTime, speedBuffMultiplier, camX, camY, reconnectTimer,
                   ticks, netEvents, origin, sinceBuff, probe,
                   timers, otherPlayers, doorways>>

(***************************************************************************)
(* The WebSocket client: connectSocket's listeners and handleServerMessage.*)
(* "connecting" is the socket startGame made, "reconnecting" one made by   *)
(* the reconnect timer, whose promise nobody awaits.                       *)
(***************************************************************************)
\* The open listener: hello, then resolve().
OpenListener ==
    /\ socket \in {"connecting", "reconnecting"}
    /\ socket' = "open"
    /\ loadPhase' = (IF socket = "connecting" /\ loadPhase = "socket" THEN "image" ELSE loadPhase)
    /\ mapName' = (IF socket = "connecting" /\ loadPhase = "socket" THEN currentMapName
                   ELSE mapName)
    /\ currentMapName' = currentMapName
    /\ last' = Quiet("socketOpen", player, ghosts, powerups, speedBuffTime,
                     speedBuffMultiplier, <<camX, camY>>, <<Hello>>)
    /\ UNCHANGED <<paused, sinceLastTime, variant, gameStarted, MAP_WIDTH, MAP_HEIGHT, walls, obstacles, input,
                   player, ghosts, powerups, speedBuffTime, speedBuffMultiplier, camX, camY,
                   multiplayer, reconnectTimer, ticks, origin, sinceBuff, probe,
                   timers, otherPlayers, doorways, liveSockets>>

\* An open event, counted against the budget of network events.
SocketOpen == MayNet /\ OpenListener /\ netEvents' = netEvents + 1

\* A variation of the close listener that arms two timeouts.
ArmedTwice(handle, n) == n + 2
\* if (!reconnectTimer) reconnectTimer = setTimeout(...): the timeouts pending
\* after a close, n being those pending before it.
Armed(handle, n) == IF handle THEN n ELSE n + 1

\* The close listener: arms the reconnect timer unless one is pending.
CloseListener ==
    /\ socket \in {"connecting", "reconnecting", "open"}
    /\ socket' = "closed"
    /\ liveSockets' = liveSockets - 1
    /\ reconnectTimer' = TRUE
    /\ timers' = Armed(reconnectTimer, timers)
    /\ last' = [Obs("socketClose") EXCEPT !.net.armed = ~reconnectTimer,
                                          !.net.delay = IF reconnectTimer THEN 0
                                                        ELSE RECONNECT_MS]
    /\ UNCHANGED <<paused, sinceLastTime, variant, gameStarted, loadPhase, MAP_WIDTH, MAP_HEIGHT, walls, obstacles,
                   input, player, ghosts, powerups, speedBuffTime, speedBuffMultiplier,
                   camX, camY, multiplayer, ticks, origin, sinceBuff, probe,
                   otherPlayers, currentMapName, mapName, doorways>>

\* A close event, counted against the budget of network events.
SocketClose == MayNet /\ CloseListener /\ netEvents' = netEvents + 1

\* A variation of the timeout callback that leaves the handle in place.
HandleKept(handle) == handle
\* The first statement of the timeout callback: reconnectTimer = null.
HandleCleared(handle) == FALSE

\* The reconnect timeout: reconnectTimer = null; connectSocket().
\* (Not counted in netEvents: every timeout was armed by a counted close.)
ReconnectFire ==
    /\ timers > 0
    /\ timers' = timers - 1
    /\ reconnectTimer' = HandleCleared(reconnectTimer)
    /\ socket' = "reconnecting"
    /\ liveSockets' = liveSockets + 1
    /\ last' = Obs("reconnect")
    /\ UNCHANGED <<paused, sinceLastTime, variant, gameStarted, loadPhase, MAP_WIDTH, MAP_HEIGHT, walls, obstacles,
                   netEvents,
                   input, player, ghosts, powerups, speedBuffTime, speedBuffMultiplier,
                   camX, camY, multiplayer, ticks, origin, sinceBuff, probe,
                   otherPlayers, currentMapName, mapName, doorways>>

\* A variation in which a match deactivates every power-up.
RemoteTakenSweep(pus, msg) ==
    IF \E i \in DOMAIN pus : pus[i].active
                              /\ Dist2(pus[i].x, pus[i].y, msg.x, msg.y) < 200 * 200
    THEN [i \in DOMAIN pus |-> [pus[i] EXCEPT !.active = FALSE]]
    ELSE pus

\* A variation in which a power-up exactly 20 px away is taken too.
RemoteTakenWithin(pus, msg) ==
    LET near == {i \in DOMAIN pus : pus[i].active
                                     /\ Dist2(pus[i].x, pus[i].y, msg.x, msg.y) <= 200 * 200}
    IN IF near = {} THEN pus
       ELSE [pus EXCEPT ![CHOOSE i \in near : \A j \in near : i <= j].active = FALSE]

\* case "powerupTaken" of handleServerMessage: the first active power-up
\* closer than 20 px to (msg.x, msg.y) is deactivated.
RemoteTaken(pus, msg) ==
    LET near == {i \in DOMAIN pus : pus[i].active
                                     /\ Dist2(pus[i].x, pus[i].y, msg.x, msg.y) < 200 * 200}
    IN IF near = {} THEN pus
       ELSE [pus EXCEPT ![CHOOSE i \in near : \A j \in near : i <= j].active = FALSE]

\* A variation in which a powerupTaken message flips the nearest power-up.
handleServerMessageToggle(pus, msg) ==
    LET near == {i \in DOMAIN pus : Dist2(pus[i].x, pus[i].y, msg.x, msg.y) < 200 * 200}
    IN IF msg.type # "powerupTaken" \/ near = {} THEN pus
       ELSE LET k == CHOOSE i \in near : \A j \in near : i <= j
            IN [pus EXCEPT ![k].active = ~pus[k].active]

handleServerMessage(pus, msg) ==
    IF msg.type = "powerupTaken" THEN RemoteTaken(pus, msg) ELSE pus

\* The message listener of the open socket, run on one of `payloads`.
OnMessage(payloads) ==
    /\ socket = "open"
    /\ MayNet
    /\ \E pl \in payloads :
       \E run \in {Listener(pl)} :
         /\ powerups' = (IF run.handled THEN handleServerMessage(powerups, pl.msg)
                         ELSE powerups)
         /\ otherPlayers' = (IF run.handled THEN handleRegistry(variant, otherPlayers, pl.msg)
                             ELSE otherPlayers)
         /\ currentMapName' = (IF run.handled THEN handleMapName(currentMapName, pl.msg)
                               ELSE currentMapName)
         /\ last' = [Obs("message") EXCEPT !.net.msg = pl.msg,
                                           !.net.parses = pl.parses,
                                           !.net.raised = run.raised,
                                           !.net.otherPlayers = otherPlayers,
                                           !.net.currentMapName = currentMapName,
                                           !.net.prior =
                                               IF last.op = "message" /\ last.net.parses
                                               THEN [type |-> last.net.msg.type,
                                                     id |-> last.net.msg.id]
                                               ELSE NoNet.prior]
    /\ socket' = socket
    /\ netEvents' = netEvents + 1
    /\ UNCHANGED <<paused, sinceLastTime, variant, gameStarted, loadPhase, MAP_WIDTH, MAP_HEIGHT, walls, obstacles,
                   input, player, ghosts, speedBuffTime, speedBuffMultiplier, camX, camY,
                   multiplayer, reconnectTimer, ticks, origin, sinceBuff, probe,
                   timers, mapName, doorways, liveSockets>>

ServerMessage == OnMessage({Payload(m) : m \in ServerMessages})

\* mapImage.onload / mapImage.onerror of loadMap: the map size each variant takes.
LoadedSize(v, r, cur, view15, viewZoom, floor) ==
    CASE v = "game_b" -> IF r.ok THEN r.dim ELSE cur
      [] v = "part_001" -> IF r.ok /\ r.dim # 0 THEN r.dim ELSE cur
      [] v = "part_000" -> IF r.ok THEN (IF r.dim # 0 THEN r.dim ELSE Max(cur, view15)) ELSE cur
      [] OTHER -> IF r.ok THEN Max(IF r.dim # 0 THEN r.dim ELSE cur, Max(viewZoom, floor))
                  ELSE Max(cur, viewZoom)

ImageLoaded ==
    /\ loadPhase = "image"
    /\ \E r \in ImageResults :
         /\ MAP_WIDTH' = LoadedSize(variant, [ok |-> r.ok, dim |-> r.w], MAP_WIDTH,
                                    (VIEW_W * 3) \div 2, VIEW_W \div 2, 8000)
         /\ MAP_HEIGHT' = LoadedSize(variant, [ok |-> r.ok, dim |-> r.h], MAP_HEIGHT,
                                     (VIEW_H * 3) \div 2, VIEW_H \div 2, 6000)
    /\ loadPhase' = "geometry"
    /\ last' = Obs("imageLoaded")
    /\ UNCHANGED <<paused, sinceLastTime, variant, gameStarted, walls, obstacles, input, player, ghosts, powerups,
                   speedBuffTime, speedBuffMultiplier, camX, camY, multiplayer, socket,
                   reconnectTimer, ticks, netEvents, origin, sinceBuff, probe,
                   timers, otherPlayers, currentMapName, mapName, doorways, liveSockets>>

\* The rest of loadMap after the geometry fetch: colliders replaced (empty on a
\* failure), then placePlayerAtSafeSpawn against the new colliders, then, where
\* there is a smoothed camera, the camera set on its target.
GeometryLoaded ==
    /\ loadPhase = "geometry"
    /\ \E doc \in GeometryDocs :
       \E g \in {loadGeometry(doc)} :
         /\ walls' = g.walls
         /\ obstacles' = g.obstacles
         /\ doorways' = g.doorways
         /\ last' = [Obs("geometryLoaded") EXCEPT !.net.doc = doc.kind]
    /\ UNCHANGED <<variant, MAP_WIDTH, MAP_HEIGHT>>
    /\ player' = [player EXCEPT !.x = (placePlayerAtSafeSpawn(variant))'[1],
                                !.y = (placePlayerAtSafeSpawn(variant))'[2]]
    /\ camX' = (IF HasCamera(variant)
                THEN SnapAxis(variant, camX, (getTargetCamera(variant, player)).targetX')
                ELSE camX)
    /\ camY' = (IF HasCamera(variant)
                THEN SnapAxis(variant, camY, (getTargetCamera(variant, player)).targetY')
                ELSE camY)
    /\ loadPhase' = "done"
    /\ UNCHANGED <<paused, sinceLastTime, gameStarted, input, ghosts, powerups, speedBuffTime, speedBuffMultiplier,
                   multiplayer, socket, reconnectTimer, ticks, netEvents, origin, sinceBuff,
                   probe, timers, otherPlayers, currentMapName, mapName, liveSockets>>

(***************************************************************************)
(* update(dt): one frame of the loop, run to completion.                   *)
(***************************************************************************)
\* Ghost.update of every ghost, in order, against the just-updated player.
RECURSIVE UpdateGhosts(_, _, _, _, _)
UpdateGhosts(v, gs, p, hd, i) ==
    IF i > Len(gs) THEN <<>>
    ELSE <<GhostUpdate(v, gs[i], p, hd[i])>> \o UpdateGhosts(v, gs, p, hd, i + 1)

\* The random headings one frame can consume: ghost i draws one only when its
\* wander timer has run out.  Of the draws of one frame, those in which every
\* drawing ghost gets the same heading are explored.
HeadingDraws ==
    IF \E i \in DOMAIN ghosts : ghosts[i].changeDirTimer <= 0
    THEN {[i \in DOMAIN ghosts |-> IF ghosts[i].changeDirTimer <= 0 THEN h ELSE <<0, 0>>] :
            h \in Headings(variant)}
    ELSE {[i \in DOMAIN ghosts |-> <<0, 0>>]}

\* The frame time matters only to the buff timer.
FrameDraws == IF variant # "game_a" /\ speedBuffTime > 0 THEN FrameTimes ELSE {16}

\* The loop running update while the game is paused as well.
LoopUpdatesPaused(started, p) == started

\* The loop's branch that runs update(dt): the game has started and is not
\* paused.
LoopUpdates(started, p) == started /\ ~p

\* The loop's branch that only draws: the game has started and is paused.
LoopDrawsOnly(started, p) == started /\ p

\* `lastTime = now`, in every callback of the loop whatever branch it takes:
\* of the gap carried so far and the d ms of this callback nothing is left
\* for the next one.
StampLastTime(gap, d) == 0

Frame(inputs) ==
    /\ \E in \in inputs, d \in FrameDraws, hd \in HeadingDraws :
       \E dt \in {sinceLastTime + d} :
       \E buff1 \in {IF variant # "game_a" /\ speedBuffTime > 0
                     THEN speedBuffTime - dt ELSE speedBuffTime} :
       \E pu \in {PlayerUpdate(variant, player, in, buff1, speedBuffMultiplier)} :
       \E gu \in {UpdateGhosts(variant, ghosts, pu.player, hd, 1)} :
       \E gs1 \in {[i \in DOMAIN ghosts |-> gu[i].ghost]} :
       \E col \in {CollisionStep(variant, gs1, pu.player)} :
       \E pw \in {PowerupStep(variant, col.player, powerups, buff1, speedBuffMultiplier)} :
       \E online \in {multiplayer /\ socket = "open"} :
       \E tg \in {getTargetCamera(variant, pw.player)} :
            /\ camX' = (IF HasCamera(variant) THEN LerpAxis(variant, camX, tg.targetX) ELSE camX)
            /\ camY' = (IF HasCamera(variant) THEN LerpAxis(variant, camY, tg.targetY) ELSE camY)
            /\ sinceBuff' = (CASE variant # "game_a"
                                    /\ (\E i \in pw.collected : powerups[i].type = "speed") -> 0
                               [] sinceBuff >= 0 -> sinceBuff + dt
                               [] OTHER -> sinceBuff)
            /\ sinceLastTime' = StampLastTime(sinceLastTime, d)
            /\ input' = in
            /\ player' = pw.player
            /\ ghosts' = gs1
            /\ powerups' = pw.powerups
            /\ speedBuffTime' = pw.buffTime
            /\ speedBuffMultiplier' = pw.buffMult
            /\ last' = [op |-> "tick",
                        prev |-> [player |-> player, ghosts |-> ghosts, powerups |-> powerups,
                                  buffTime |-> speedBuffTime, buffMult |-> speedBuffMultiplier,
                                  camX |-> camX, camY |-> camY],
                        online |-> online,
                        moved |-> pu.player, dx |-> pu.dx, dy |-> pu.dy,
                        rx |-> pu.rx, ry |-> pu.ry, atPowerups |-> col.player,
                        buffAt |-> buff1,
                        updateSent |-> MoveReport(variant, pu, in, online),
                        sent |-> MoveReport(variant, pu, in, online)
                                 \o RespawnReport(variant, col, online)
                                 \o PowerupReport(variant, pw.collected, powerups, online, 1),
                        hits |-> col.hits,
                        alerts |-> {i \in DOMAIN ghosts : gu[i].alert},
                        collected |-> pw.collected,
                        sounds |-> pu.sounds
                                   \o SelectSeq([i \in DOMAIN ghosts |->
                                                    [key |-> "ghostChase", src |-> i]],
                                                LAMBDA e : gu[e.src].alert)
                                   \o col.sounds \o pw.sounds,
                        net |-> NoNet]
    /\ ticks' = ticks + 1
    /\ UNCHANGED <<paused, variant, gameStarted, loadPhase, MAP_WIDTH, MAP_HEIGHT, walls, obstacles,
                   multiplayer, socket, reconnectTimer, netEvents, origin, probe,
                   timers, otherPlayers, currentMapName, mapName, doorways, liveSockets>>

\* The loop, when the game has started.
Tick ==
    /\ LoopUpdates(gameStarted, paused)
    /\ MayTick
    /\ Frame(InputSnapshots)

\* The loop while the game is paused: dt is computed and dropped, the frame
\* is drawn again.
PausedFrame ==
    /\ LoopDrawsOnly(gameStarted, paused)
    /\ \E d \in FrameTimes : sinceLastTime' = StampLastTime(sinceLastTime, d)
    /\ last' = Obs("pausedFrame")
    /\ UNCHANGED <<paused, variant, gameStarted, loadPhase, MAP_WIDTH, MAP_HEIGHT, walls,
                   obstacles, input, player, ghosts, powerups, speedBuffTime,
                   speedBuffMultiplier, camX, camY, multiplayer, socket, reconnectTimer,
                   ticks, netEvents, origin, probe, sinceBuff, timers, otherPlayers,
                   currentMapName, mapName, doorways, liveSockets>>

\* The keydown listener, for the P key: the key is held, the pause flag flips.
\* game.js first program has no pause flag.
KeyP ==
    /\ variant # "game_a"
    /\ input' = input \cup {"p"}
    /\ paused' = ~paused
    /\ last' = Obs("keydown")
    /\ UNCHANGED <<sinceLastTime, variant, gameStarted, loadPhase, MAP_WIDTH, MAP_HEIGHT, walls,
                   obstacles, player, ghosts, powerups, speedBuffTime,
                   speedBuffMultiplier, camX, camY, multiplayer, socket, reconnectTimer,
                   ticks, netEvents, origin, probe, sinceBuff, timers, otherPlayers,
                   currentMapName, mapName, doorways, liveSockets>>

Next ==
    \/ StartGame \/ ImageLoaded \/ GeometryLoaded \/ Tick
    \/ SocketOpen \/ SocketClose \/ ReconnectFire \/ ServerMessage

Spec == Init /\ [][Next]_vars

(***************************************************************************)
(* The overlap tests on their own: a pair of rectangles is drawn, then     *)
(* every test is applied to it, both ways round.                           *)
(***************************************************************************)
MaxCoord == 3
MaxSide == 2
ProbeRectangles ==
    {Rect(x, y, w, h) : x \in 0..MaxCoord, y \in 0..MaxCoord, w \in 1..MaxSide, h \in 1..MaxSide}

RectArgs(a, b) == <<a.x, a.y, a.w, a.h, b.x, b.y, b.w, b.h>>
AsEntity(r) == [x |-> r.x, y |-> r.y, size |-> r.w]

InitRect ==
    /\ variant = "part_002"
    /\ gameStarted = FALSE /\ loadPhase = "none"
    /\ MAP_WIDTH = INIT_MAP_WIDTH /\ MAP_HEIGHT = INIT_MAP_HEIGHT
    /\ walls = <<>> /\ obstacles = <<>> /\ input = {}
    /\ player = InitPlayer("part_002") /\ ghosts = InitGhosts("part_002")
    /\ powerups = InitPowerups("part_002")
    /\ speedBuffTime = 0 /\ speedBuffMultiplier = 10
    /\ camX = 0 /\ camY = 0 /\ multiplayer = FALSE /\ socket = "null"
    /\ reconnectTimer = FALSE /\ ticks = 0 /\ netEvents = 0 /\ origin = "constructed"
    /\ timers = 0 /\ otherPlayers = {} /\ currentMapName = DEFAULT_MAP
    /\ mapName = "none" /\ doorways = <<>> /\ liveSockets = 0
    /\ paused = FALSE /\ sinceLastTime = 0
    /\ sinceBuff = -1
    /\ last = Quiet("init", InitPlayer("part_002"), InitGhosts("part_002"),
                    InitPowerups("part_002"), 0, 10, <<0, 0>>, <<>>)
    /\ \E a \in ProbeRectangles, b \in ProbeRectangles :
          probe = [on |-> TRUE, done |-> FALSE, a |-> a, b |-> b,
                   hit |-> FALSE, swapped |-> FALSE, collide |-> FALSE, entity |-> FALSE,
                   entitySwapped |-> FALSE]

ApplyOverlapTests ==
    /\ probe.on /\ ~probe.done
    /\ probe' = [probe EXCEPT
                    !.done = TRUE,
                    !.hit = aabbRectHit(RectArgs(probe.a, probe.b)),
                    !.swapped = aabbRectHit(RectArgs(probe.b, probe.a)),
                    !.collide = aabbCollideRect(probe.a.x, probe.a.y, probe.a.w,
                                                probe.b.x, probe.b.y, probe.b.w, probe.b.h),
                    !.entity = aabbEntityHit(AsEntity(probe.a), AsEntity(probe.b)),
                    !.entitySwapped = aabbEntityHit(AsEntity(probe.b), AsEntity(probe.a))]
    /\ UNCHANGED <<paused, sinceLastTime, variant, gameStarted, loadPhase, MAP_WIDTH, MAP_HEIGHT, walls, obstacles,
                   input, player, ghosts, powerups, speedBuffTime, speedBuffMultiplier,
                   camX, camY, multiplayer, socket, reconnectTimer, ticks, netEvents, origin,
                   sinceBuff, last, timers, otherPlayers, currentMapName, mapName, doorways, liveSockets>>

NextRect == ApplyOverlapTests

SpecRect == InitRect /\ [][NextRect]_vars

(***************************************************************************)
(* The socket on its own: a multiplayer game with the socket open and the  *)
(* map loaded, in which only socket events happen.  The browser runs a     *)
(* timeout that is due, so the reconnect timeout is weakly fair.           *)
(***************************************************************************)
InitNet == \E v \in Variants : HasNetwork(v) /\ MidGame(v, "camp", TRUE)

ServerMessageNet == OnMessage(NetPayloads)

NextNet == SocketOpen \/ SocketClose \/ ReconnectFire \/ ServerMessageNet

SpecNet == InitNet /\ [][NextNet]_vars /\ WF_vars(ReconnectFire)

(***************************************************************************)
(* A long run of frames with no key held, from a state in which the first  *)
(* ghost wanders with its timer run out and the second one chases.         *)
(***************************************************************************)
MaxWanderTicks == 250

InitWander == \E v \in Variants : MidGame(v, "detect", FALSE)

WanderTick ==
    /\ gameStarted
    /\ ticks < MaxWanderTicks
    /\ Frame({{}})

NextWander == WanderTick

SpecWander == InitWander /\ [][NextWander]_vars

(***************************************************************************)
(* The start of a game with the WebSocket client, from the page as loaded  *)
(* to the end of loadMap.  An image load and a fetch always settle, and a  *)
(* pending timeout always fires; a socket being connected opens or closes, *)
(* which of the two, and whether an open socket closes, is up to the       *)
(* server.                                                                 *)
(***************************************************************************)
InitStart == \E v \in Variants : HasNetwork(v) /\ Constructed(v)

\* The events of a socket, as many as the server causes.
OpenEvent == OpenListener /\ UNCHANGED netEvents
CloseEvent == CloseListener /\ UNCHANGED netEvents
\* A socket that is being connected either opens or closes.
SocketSettles == socket \in {"connecting", "reconnecting"} /\ (OpenEvent \/ CloseEvent)

NextStart ==
    \/ StartGame \/ ImageLoaded \/ GeometryLoaded
    \/ OpenEvent \/ CloseEvent \/ ReconnectFire

SpecStart ==
    /\ InitStart
    /\ [][NextStart]_vars
    /\ WF_vars(ImageLoaded)
    /\ WF_vars(GeometryLoaded)
    /\ WF_vars(ReconnectFire)
    /\ WF_vars(SocketSettles)

(***************************************************************************)
(* Pausing: a game under way, its frames, and the P key.                   *)
(***************************************************************************)
InitPause == \E v \in Variants, k \in Snapshots : v # "game_a" /\ MidGame(v, k, FALSE)

NextPause == Tick \/ PausedFrame \/ KeyP

SpecPause == InitPause /\ [][NextPause]_vars

(***************************************************************************)
(* Vocabulary of the properties.                                           *)
(***************************************************************************)
\* Two rectangles overlap with positive extent on both axes.
Overlap(ax, ay, aw, ah, bx, by, bw, bh) ==
    /\ ax < bx + bw /\ bx < ax + aw
    /\ ay < by + bh /\ by < ay + ah

\* The square entity e overlaps a wall or an obstacle of the loaded map.
InCollider(e) ==
    \/ \E i \in DOMAIN walls :
          Overlap(e.x, e.y, e.size, e.size, walls[i].x, walls[i].y, walls[i].w, walls[i].h)
    \/ \E i \in DOMAIN obstacles :
          Overlap(e.x, e.y, e.size, e.size,
                  obstacles[i].x, obstacles[i].y, obstacles[i].w, obstacles[i].h)

InBounds(e) ==
    /\ 0 <= e.x /\ e.x <= MAP_WIDTH - e.size
    /\ 0 <= e.y /\ e.y <= MAP_HEIGHT - e.size

\* The last handler run was a frame of update().
Ticked == last.op = "tick"

\* Squared distance Ghost.update measured in the last frame: ghost i as it was
\* before the frame, the player as Player.update left it.
SeenDist2(i) == Dist2(last.moved.x, last.moved.y, last.prev.ghosts[i].x, last.prev.ghosts[i].y)

\* How many chase-alert requests the last frame issued for ghost i.
AlertCount(i) ==
    Cardinality({k \in DOMAIN last.sounds : last.sounds[k] = [key |-> "ghostChase", src |-> i]})

(***************************************************************************)
(* C1  No-penetration: a player whose rectangle overlaps no wall or        *)
(* obstacle before a frame overlaps none after Player.update (x call, y    *)
(* call, clamp).                                                           *)
(***************************************************************************)
C1_NoPenetration ==
    (Ticked /\ HasWalls(variant) /\ ~InCollider(last.prev.player)) => ~InCollider(last.moved)

(***************************************************************************)
(* C2  Per-axis contract of moveAxis in Player.update: the x call returns  *)
(* x + dx when the candidate (x + dx, y) is free and x when it is not; the *)
(* y call, made with the x just returned, returns y + dy or y likewise;    *)
(* also for a zero displacement.                                           *)
(***************************************************************************)
C2_AxisContract ==
    (Ticked /\ HasWalls(variant)) =>
        LET p == last.prev.player
        IN /\ last.rx = IF InCollider([x |-> p.x + last.dx, y |-> p.y, size |-> p.size])
                        THEN p.x ELSE p.x + last.dx
           /\ last.ry = IF InCollider([x |-> last.rx, y |-> p.y + last.dy, size |-> p.size])
                        THEN p.y ELSE p.y + last.dy

(***************************************************************************)
(* C3  Bounds: after a frame and after a completed map load the player,    *)
(* every ghost and every power-up lie inside the map.                      *)
(***************************************************************************)
C3_Bounds ==
    (last.op \in {"tick", "geometryLoaded"}) =>
        /\ InBounds(player)
        /\ \A i \in DOMAIN ghosts : InBounds(ghosts[i])
        /\ \A i \in DOMAIN powerups : InBounds(powerups[i])

(***************************************************************************)
(* C4  Wander to chase: in a frame with the sprint key held, a ghost that  *)
(* was wandering at distance < DETECTION_RADIUS from the just-updated      *)
(* player is chasing at the end of the frame.                              *)
(***************************************************************************)
C4_WanderToChase ==
    (Ticked /\ KeyShift(input)) =>
        \A i \in DOMAIN ghosts :
            (/\ last.prev.ghosts[i].state = "wander"
             /\ SeenDist2(i) < DETECTION_RADIUS * DETECTION_RADIUS)
            => ghosts[i].state = "chase"

(***************************************************************************)
(* C5  A walking player is never detected: in a frame without the sprint   *)
(* key, no ghost that was wandering before the frame chases after it, at   *)
(* any distance.                                                           *)
(***************************************************************************)
C5_WalkingUndetected ==
    (Ticked /\ ~KeyShift(input)) =>
        \A i \in DOMAIN ghosts :
            last.prev.ghosts[i].state = "wander" => ghosts[i].state = "wander"

\* A walking frame passed right under a wandering ghost's nose.
C5_Witness ==
    /\ Ticked /\ ~KeyShift(input)
    /\ \E i \in DOMAIN ghosts :
          /\ last.prev.ghosts[i].state = "wander"
          /\ SeenDist2(i) < DETECTION_RADIUS * DETECTION_RADIUS
          /\ ghosts[i].state = "wander"

(***************************************************************************)
(* C6  Hysteresis: a chasing ghost returns to wander in a frame exactly    *)
(* when its distance to the player in that frame exceeds                   *)
(* 2 * DETECTION_RADIUS, sprinting or not; and a ghost at a distance in    *)
(* [DETECTION_RADIUS, 2 * DETECTION_RADIUS] keeps the state it had, so it  *)
(* cannot alternate between the two while the distance stays in the band.  *)
(***************************************************************************)
C6_Hysteresis ==
    Ticked =>
        \A i \in DOMAIN ghosts :
            LET was == last.prev.ghosts[i].state
                far == SeenDist2(i) > (2 * DETECTION_RADIUS) * (2 * DETECTION_RADIUS)
                near == SeenDist2(i) < DETECTION_RADIUS * DETECTION_RADIUS
            IN /\ was = "chase" => (ghosts[i].state = "wander" <=> far)
               /\ (~near /\ ~far) => ghosts[i].state = was

\* One walking frame in which a chasing ghost beyond twice the radius gave up
\* while another one inside the band kept chasing.
C6_Witness ==
    /\ Ticked /\ ~KeyShift(input)
    /\ \E i, j \in DOMAIN ghosts :
          /\ last.prev.ghosts[i].state = "chase"
          /\ SeenDist2(i) > (2 * DETECTION_RADIUS) * (2 * DETECTION_RADIUS)
          /\ ghosts[i].state = "wander"
          /\ last.prev.ghosts[j].state = "chase"
          /\ SeenDist2(j) >= DETECTION_RADIUS * DETECTION_RADIUS
          /\ SeenDist2(j) <= (2 * DETECTION_RADIUS) * (2 * DETECTION_RADIUS)
          /\ ghosts[j].state = "chase"

(***************************************************************************)
(* C7  The chase alert is edge-triggered: where Ghost.update requests the  *)
(* alert at all (every variant but the first program of game.js), a frame  *)
(* requests it for a ghost exactly once if the ghost went from wander to   *)
(* chase in that frame, and not at all otherwise.                          *)
(***************************************************************************)
C7_AlertOnEntry ==
    (Ticked /\ variant # "game_a") =>
        \A i \in DOMAIN ghosts :
            AlertCount(i) = IF last.prev.ghosts[i].state = "wander" /\ ghosts[i].state = "chase"
                            THEN 1 ELSE 0

\* One sprinting frame in which a ghost entered the chase with its alert while
\* another, already chasing and still inside the radius, stayed silent.
C7_Witness ==
    /\ Ticked /\ variant # "game_a" /\ KeyShift(input)
    /\ \E i, j \in DOMAIN ghosts :
          /\ last.prev.ghosts[i].state = "wander" /\ ghosts[i].state = "chase"
          /\ AlertCount(i) = 1
          /\ last.prev.ghosts[j].state = "chase" /\ ghosts[j].state = "chase"
          /\ SeenDist2(j) < DETECTION_RADIUS * DETECTION_RADIUS
          /\ AlertCount(j) = 0

(***************************************************************************)
(* C8  Life floor: player.lives is never negative.                         *)
(***************************************************************************)
C8_LifeFloor == player.lives >= 0

(***************************************************************************)
(* C9  One hit per frame: the ghost-collision step of a frame takes at     *)
(* most one life, however many ghosts overlap the player or the respawn    *)
(* position.                                                               *)
(***************************************************************************)
C9_OneHitPerTick ==
    Ticked => /\ last.hits <= 1
              /\ last.atPowerups.lives >= last.moved.lives - 1

(***************************************************************************)
(* C10  Power-up collection: where the speed buff exists (every variant    *)
(* but the first program of game.js), an active power-up the player's      *)
(* rectangle overlaps at the power-up step of a frame is inactive after    *)
(* the frame and has had its effect: a shield one more life, a speed       *)
(* power-up the 6000 ms / 1.2 buff.                                        *)
(***************************************************************************)
C10_Collection ==
    (Ticked /\ variant # "game_a") =>
        \A i \in DOMAIN powerups :
            LET pu == last.prev.powerups[i]
                p == last.atPowerups
            IN (/\ pu.active
                /\ Overlap(p.x, p.y, p.size, p.size, pu.x, pu.y, pu.size, pu.size))
               => /\ ~powerups[i].active
                  /\ pu.type = "shield" => player.lives = p.lives + 1
                  /\ pu.type = "speed" => /\ speedBuffTime = BUFF_MS
                                          /\ speedBuffMultiplier = BUFF_MULT

(***************************************************************************)
(* C11  Power-ups are one-shot: no step of the program (frame, server      *)
(* message, socket event, respawn, map load) turns an inactive power-up    *)
(* active again, and none changes the list of power-ups otherwise.         *)
(***************************************************************************)
C11_OneShot ==
    [][/\ DOMAIN powerups' = DOMAIN powerups
       /\ \A i \in DOMAIN powerups :
            /\ ~powerups[i].active => ~powerups'[i].active
            /\ [powerups'[i] EXCEPT !.active = TRUE] = [powerups[i] EXCEPT !.active = TRUE]]_vars

\* A frame in which the player's rectangle lay on a power-up collected earlier.
C11_Witness ==
    /\ Ticked
    /\ \E i \in DOMAIN powerups :
          /\ ~last.prev.powerups[i].active
          /\ ~powerups[i].active
          /\ Overlap(last.atPowerups.x, last.atPowerups.y, PLAYER_SIZE, PLAYER_SIZE,
                     powerups[i].x, powerups[i].y, powerups[i].size, powerups[i].size)

(***************************************************************************)
(* C12  Buffed speed: the displacement a frame's input produces is sprint  *)
(* speed with the sprint key and walk speed without, times the multiplier  *)
(* of the speed buff while its remaining time is > 0 (times 1 otherwise);  *)
(* on a diagonal each component is that speed, or that speed scaled by     *)
(* 1/sqrt(2) where the variant normalises diagonals.                       *)
(***************************************************************************)
ExpectedSpeed ==
    LET base == IF KeyShift(input) THEN SPRINT_SPEED ELSE WALK_SPEED
        mult == IF last.buffAt > 0 THEN last.prev.buffMult ELSE 10
    IN RoundDiv(base * mult, 10)

C12_BuffedSpeed ==
    Ticked =>
        /\ (last.dx # 0 /\ last.dy = 0) => Abs(last.dx) = ExpectedSpeed
        /\ (last.dx = 0 /\ last.dy # 0) => Abs(last.dy) = ExpectedSpeed
        /\ (last.dx # 0 /\ last.dy # 0) =>
               /\ Abs(last.dx) = Abs(last.dy)
               /\ Abs(last.dx) \in {ExpectedSpeed, DiagScale(ExpectedSpeed)}

(***************************************************************************)
(* C13  Speed buff expiry.  After a speed buff of 6000 ms with multiplier  *)
(* 1.2 has been applied, the remaining time is 6000 minus the frame time   *)
(* run since then while that is positive; once the frame times sum to      *)
(* 6000 ms or more the remaining time is <= 0 and the effective walk and   *)
(* sprint speeds are the base values again, and this lasts until another   *)
(* speed power-up is collected (which restarts the count).                 *)
(***************************************************************************)
C13_BuffExpiry ==
    /\ (sinceBuff >= 0 /\ sinceBuff < BUFF_MS) =>
          /\ speedBuffTime = BUFF_MS - sinceBuff
          /\ speedBuffMultiplier = BUFF_MULT
          /\ getWalkSpeed(speedBuffTime, speedBuffMultiplier) = (WALK_SPEED * BUFF_MULT) \div 10
          /\ getSprintSpeed(speedBuffTime, speedBuffMultiplier) = (SPRINT_SPEED * BUFF_MULT) \div 10
    /\ sinceBuff >= BUFF_MS =>
          /\ speedBuffTime <= 0
          /\ getWalkSpeed(speedBuffTime, speedBuffMultiplier) = WALK_SPEED
          /\ getSprintSpeed(speedBuffTime, speedBuffMultiplier) = SPRINT_SPEED

C13_Witness ==
    /\ Ticked
    /\ sinceBuff >= BUFF_MS
    /\ last.prev.buffTime > 0
    /\ speedBuffTime <= 0
    /\ speedBuffMultiplier = BUFF_MULT

(***************************************************************************)
(* C14  The sprinting flag tracks the sprint input.  After every player    *)
(* update, player.sprinting is true exactly when the sprint key was held   *)
(* in that tick, so the ghost updates of the same tick read the current    *)
(* sprint state.                                                           *)
(***************************************************************************)
C14_SprintingTracksInput ==
    Ticked => (last.moved.sprinting <=> KeyShift(input))

(***************************************************************************)
(* C15  Safe respawn.  Whenever the player is placed at map load, or       *)
(* respawned after a ghost contact, the position chosen by                 *)
(* placePlayerAtSafeSpawn overlaps no wall and no obstacle of the loaded   *)
(* map, whatever the map geometry.                                         *)
(***************************************************************************)
C15_SafeRespawn ==
    (/\ HasWalls(variant)
     /\ \/ last.op = "geometryLoaded"
        \/ Ticked /\ last.hits > 0)
    => ~InCollider(player)

(***************************************************************************)
(* C16  The rectangle overlap test is true exactly when the two            *)
(* axis-aligned rectangles share a region of positive extent on both axes: *)
(* rectangles that only touch along an edge or at a corner do not collide, *)
(* and the answer does not depend on the order of the two rectangles.      *)
(* The same holds of the square-against-rectangle and entity forms.        *)
(***************************************************************************)
\* Length of the interval common to [p, p + l) and [q, q + m).
SharedExtent(p, l, q, m) == Min(p + l, q + m) - Max(p, q)

PositiveOverlap(a, b) ==
    /\ SharedExtent(a.x, a.w, b.x, b.w) > 0
    /\ SharedExtent(a.y, a.h, b.y, b.h) > 0

\* The two rectangles meet in a line or a point only.
OnlyTouching(a, b) ==
    /\ SharedExtent(a.x, a.w, b.x, b.w) >= 0
    /\ SharedExtent(a.y, a.h, b.y, b.h) >= 0
    /\ ~PositiveOverlap(a, b)

SquareOf(r) == [r EXCEPT !.h = r.w]

C16_RectIntersect ==
    (probe.on /\ probe.done) =>
        /\ probe.hit <=> PositiveOverlap(probe.a, probe.b)
        /\ probe.swapped <=> probe.hit
        /\ probe.collide <=> PositiveOverlap(SquareOf(probe.a), probe.b)
        /\ probe.entity <=> PositiveOverlap(SquareOf(probe.a), SquareOf(probe.b))
        /\ probe.entitySwapped <=> probe.entity

C16_Witness ==
    /\ probe.on /\ probe.done
    /\ OnlyTouching(probe.a, probe.b)
    /\ SharedExtent(probe.a.x, probe.a.w, probe.b.x, probe.b.w) = 0
    /\ SharedExtent(probe.a.y, probe.a.h, probe.b.y, probe.b.h) > 0
    /\ ~probe.hit /\ ~probe.swapped

(***************************************************************************)
(* C17  Camera clamp.  For every player position the camera target on each *)
(* axis lies in [0, max(0, mapSize - viewSize)]; on an axis where the map  *)
(* is smaller than the viewport the target is 0.                           *)
(***************************************************************************)
CameraTarget == getTargetCamera(variant, player)
ViewSize == getViewSize(variant)

C17_CameraClamp ==
    /\ CameraTarget.targetX >= 0
    /\ CameraTarget.targetX <= Max(0, MAP_WIDTH - ViewSize.viewW)
    /\ CameraTarget.targetY >= 0
    /\ CameraTarget.targetY <= Max(0, MAP_HEIGHT - ViewSize.viewH)
    /\ MAP_WIDTH < ViewSize.viewW => CameraTarget.targetX = 0
    /\ MAP_HEIGHT < ViewSize.viewH => CameraTarget.targetY = 0
    /\ \A pos \in {0, player.x, player.y, MAP_WIDTH, MAP_HEIGHT, MAP_WIDTH + MAP_HEIGHT} :
          /\ CameraAxis(variant, pos, MAP_WIDTH, ViewSize.viewW)
                 \in 0..Max(0, MAP_WIDTH - ViewSize.viewW)
          /\ CameraAxis(variant, pos, MAP_HEIGHT, ViewSize.viewH)
                 \in 0..Max(0, MAP_HEIGHT - ViewSize.viewH)

C17_Witness ==
    /\ MAP_WIDTH < ViewSize.viewW
    /\ player.x - ViewSize.viewW \div 2 > Max(0, MAP_WIDTH - ViewSize.viewW)
    /\ CameraTarget.targetX = 0
    /\ Ticked

(***************************************************************************)
(* C18  Camera snap on load.  When loadMap completes, the camera offset    *)
(* (camX, camY) is exactly the target computed from the player's spawn     *)
(* position: no smoothing step lies in between, wherever the camera was.   *)
(***************************************************************************)
C18_CameraSnap ==
    (last.op = "geometryLoaded" /\ HasCamera(variant)) =>
        /\ camX = CameraTarget.targetX
        /\ camY = CameraTarget.targetY

C18_Witness ==
    /\ last.op = "geometryLoaded" /\ HasCamera(variant)
    /\ last.prev.camX # CameraTarget.targetX
    /\ last.prev.camY # CameraTarget.targetY
    /\ camX = CameraTarget.targetX
    /\ camY = CameraTarget.targetY

(***************************************************************************)
(* C19  End-to-end step.  On a 1920x1080 map with no walls or obstacles, a *)
(* player at (300, 300) who walks (sprint not held, no buff active) with   *)
(* only the right key held is at x = 302.5, y = 300 after one tick.        *)
(***************************************************************************)
C19_Setting ==
    /\ Ticked
    /\ last.prev.player.x = 3000 /\ last.prev.player.y = 3000
    /\ MAP_WIDTH = 19200 /\ MAP_HEIGHT = 10800
    /\ walls = <<>> /\ obstacles = <<>>
    /\ input = {"d"}
    /\ last.buffAt <= 0

C19_EndToEndStep == C19_Setting => (player.x = 3025 /\ player.y = 3000)

C19_Witness == C19_Setting /\ player.x = 3025 /\ player.y = 3000 /\ variant = "part_002"

(***************************************************************************)
(* C20  Move intent.                                                       *)
(***************************************************************************)
\* The input-derived delta of the frame, before collision resolution.
IntentToMove == last.dx # 0 \/ last.dy # 0
FootstepIssued == \E k \in DOMAIN last.sounds : last.sounds[k].key = "footsteps"
MovesSent == SelectSeq(last.sent, LAMBDA m : m.type = "move")

\* C20 as stated: a footstep trigger, and with an open socket in multiplayer
\* a move{x,y,sprinting} message, is issued in exactly those ticks in which
\* the input-derived delta is non-zero before collision resolution.
C20_MoveIntent ==
    (Ticked /\ variant # "game_a") =>
        /\ FootstepIssued <=> IntentToMove
        /\ last.online => (MovesSent # <<>> <=> IntentToMove)
        /\ ~last.online => MovesSent = <<>>

\* C20 amended: Player.update issues the footstep trigger, and with an open
\* socket in multiplayer exactly one move message carrying the position after
\* collision resolution and the sprint key, in exactly those ticks in which
\* the input-derived delta is non-zero (also when a wall cancels the whole
\* displacement, not when opposite keys cancel); the only other move message
\* of a tick is the position sync of a respawn, sent with sprinting false
\* after a ghost contact whatever the delta.
C20_MoveIntentOfUpdate ==
    (Ticked /\ variant # "game_a") =>
        /\ FootstepIssued <=> IntentToMove
        /\ last.updateSent =
              (IF last.online /\ IntentToMove
               THEN <<Move(last.moved.x, last.moved.y, KeyShift(input))>>
               ELSE <<>>)
        /\ MovesSent =
              last.updateSent
              \o (IF last.online /\ last.hits > 0
                  THEN <<Move(player.x, player.y, FALSE)>>
                  ELSE <<>>)

\* A wall cancels the whole displacement of an online player, and the
\* footstep and the move message are issued all the same.
C20_Witness ==
    /\ Ticked /\ last.online
    /\ IntentToMove
    /\ input = {"d"}
    /\ last.moved.x = last.prev.player.x /\ last.moved.y = last.prev.player.y
    /\ FootstepIssued
    /\ last.updateSent = <<Move(last.prev.player.x, last.prev.player.y, FALSE)>>

(***************************************************************************)
(* C21  No gameplay tick before the map has loaded.  From startGame until  *)
(* loadMap has finished (map size, walls and obstacles set, player placed  *)
(* at its spawn) the loop runs no update(dt).                              *)
(***************************************************************************)
C21_NoTickBeforeLoad ==
    (Ticked /\ HasWalls(variant)) => loadPhase = "done"

(***************************************************************************)
(* C28  Ghost state consistency.  In every reachable state and for every   *)
(* ghost: state = chase exactly when target is non-null, and (where the    *)
(* ghost has a chasing flag) exactly when that flag is set; a wandering    *)
(* ghost has a null target.                                                *)
(***************************************************************************)
C28_GhostStateConsistent ==
    \A i \in DOMAIN ghosts :
        /\ ghosts[i].state \in {"wander", "chase"}
        /\ (ghosts[i].state = "chase") <=> (ghosts[i].target # "null")
        /\ variant # "game_a" => ((ghosts[i].state = "chase") <=> ghosts[i].chasing)
        /\ ghosts[i].state = "wander" => ghosts[i].target = "null"

(***************************************************************************)
(* C22  A powerupTaken{x,y} message of the server deactivates the active   *)
(* local power-up nearest to (x, y) among those closer than 20 px, and     *)
(* changes no power-up when no active one is closer than 20 px.            *)
(***************************************************************************)
TakenMessage == last.op = "message" /\ last.net.parses /\ last.net.msg.type = "powerupTaken"
\* Squared distance of power-up i, as it was, from the place the message names.
TakenDist2(i) ==
    Dist2(last.prev.powerups[i].x, last.prev.powerups[i].y, last.net.msg.x, last.net.msg.y)
TakenNear ==
    {i \in DOMAIN last.prev.powerups :
        last.prev.powerups[i].active /\ TakenDist2(i) < 200 * 200}

C22_RemoteTaken ==
    TakenMessage =>
        IF TakenNear = {} THEN powerups = last.prev.powerups
        ELSE \E k \in TakenNear :
                /\ \A j \in TakenNear : TakenDist2(k) <= TakenDist2(j)
                /\ powerups = [last.prev.powerups EXCEPT ![k].active = FALSE]

C22_Witness ==
    /\ TakenMessage
    /\ TakenNear # {}
    /\ \E k \in TakenNear : last.prev.powerups[k].active /\ ~powerups[k].active



(***************************************************************************)
(* C23: the registry after a welcome.                                      *)
(***************************************************************************)
\* A welcome that was parsed and handled is the last step.
WelcomeHandled ==
    last.op = "message" /\ last.net.parses /\ last.net.msg.type = "welcome"
\* The entries of the players array of the welcome, and the ids of a set of entries.
WelcomeList == last.net.msg.players
IdsOf(reg) == {r.id : r \in reg}
ListedIds == {WelcomeList[i].id : i \in DOMAIN WelcomeList}
\* The positions of the list the forEach registers: all in part_002, all but
\* those of id "me" in part_000 and part_001.
Registered ==
    {i \in DOMAIN WelcomeList : variant = "part_002" \/ WelcomeList[i].id # "me"}
\* The position of the list an id's entry comes from: its first listing in
\* part_002 (later ones are skipped), its last in part_000/part_001 (overwritten).
SourceOf(id) ==
    LET at == {i \in Registered : WelcomeList[i].id = id}
    IN IF variant = "part_002"
       THEN CHOOSE i \in at : \A j \in at : i <= j
       ELSE CHOOSE i \in at : \A j \in at : i >= j

\* C23 as stated: after a welcome is handled, the ids of the registry are exactly
\* the ids the message lists.
C23_ExactlyListed ==
    WelcomeHandled => IdsOf(otherPlayers) = ListedIds

\* C23 as the code has it: after a welcome is handled the registry holds one
\* entry per registered id of the list (every listed id in part_002, every
\* listed id but "me" in part_000/part_001), built from that listing alone: a
\* missing or zero coordinate is 300 px, a missing name is the id; no entry of
\* the registry before the welcome survives unless the welcome lists its id.
C23_WelcomeRebuilds ==
    WelcomeHandled =>
        /\ IdsOf(otherPlayers) = {WelcomeList[i].id : i \in Registered}
        /\ Cardinality(otherPlayers) = Cardinality(IdsOf(otherPlayers))
        /\ \A r \in otherPlayers :
             LET p == WelcomeList[SourceOf(r.id)]
             IN /\ r.x = (IF p.x = 0 THEN REMOTE_DEFAULT ELSE p.x)
                /\ r.y = (IF p.y = 0 THEN REMOTE_DEFAULT ELSE p.y)
                /\ r.name = (IF p.name # "" THEN p.name ELSE r.id)

\* A welcome was handled while the registry held a player the welcome does not
\* list, and that player is gone.
C23_Witness ==
    /\ WelcomeHandled
    /\ \E r \in last.net.otherPlayers : r.id \notin ListedIds /\ r.id \notin IdsOf(otherPlayers)
    /\ otherPlayers # {}

(***************************************************************************)
(* C24, C25: messages the handler has no case for, and unparseable ones.   *)
(***************************************************************************)
\* The state a message can write is what it was before the message arrived.
MessageLeftStateAlone ==
    /\ otherPlayers = last.net.otherPlayers
    /\ currentMapName = last.net.currentMapName
    /\ powerups = last.prev.powerups
    /\ player = last.prev.player
    /\ ghosts = last.prev.ghosts

\* C24: a parsed message whose type is none of welcome, playerJoined,
\* playerMoved, playerLeft, powerupTaken, pong leaves the registry, the
\* power-ups, the player, the ghosts and the current map name unchanged.
C24_UnknownTypeIgnored ==
    (last.op = "message" /\ last.net.parses /\ last.net.msg.type \notin HandledTypes)
        => MessageLeftStateAlone

\* A message of an unhandled type arrived while the registry held a player.
C24_Witness ==
    /\ last.op = "message"
    /\ last.net.parses
    /\ last.net.msg.type = "chat"
    /\ last.net.otherPlayers # {}
    /\ otherPlayers = last.net.otherPlayers

\* C25: a payload that does not parse raises nothing out of the listener and
\* leaves the local state unchanged; the socket stays open and the game stays
\* started, so the loop keeps ticking.
C25_MalformedDropped ==
    (last.op = "message" /\ ~last.net.parses)
        => /\ ~last.net.raised
           /\ MessageLeftStateAlone
           /\ socket = "open"
           /\ gameStarted

\* An unparseable payload arrived while the registry held a player.
C25_Witness ==
    /\ last.op = "message"
    /\ ~last.net.parses
    /\ ~last.net.raised
    /\ otherPlayers # {}
    /\ socket = "open"

(***************************************************************************)
(* C26: the reconnect timer.                                               *)
(***************************************************************************)
\* The close listener just ran / the timeout callback just ran.
Closed == last.op = "socketClose"
Reconnected == last.op = "reconnect" /\ socket = "reconnecting"

\* C26: at any time at most one reconnect timeout is pending, and the handle is
\* set exactly while one is; a close arms one timeout of 3000 ms when none is
\* pending and none otherwise; and every close is eventually followed by the
\* timeout callback making a new connection attempt.
C26_Reconnect ==
    /\ [](/\ timers \in {0, 1}
          /\ reconnectTimer <=> (timers = 1)
          /\ Closed => /\ timers = 1
                       /\ last.net.armed <=> (last.net.delay = RECONNECT_MS)
                       /\ ~last.net.armed => last.net.delay = 0)
    /\ (socket = "closed") ~> Reconnected

\* The socket made by a reconnect was closed in its turn, and the timeout
\* armed by that second close has fired.
C26_Witness ==
    /\ Reconnected
    /\ netEvents >= 2
    /\ timers = 0
    /\ ~reconnectTimer

(***************************************************************************)
(* C27: loadMap when the geometry document fails.                          *)
(***************************************************************************)
\* loadMap has just finished on a document whose fetch, parse or build threw.
GeometryFailed == last.op = "geometryLoaded" /\ last.net.doc # "ok"

C30_MapFollowsWelcome ==
    (HasNetwork(variant) /\ loadPhase = "done") => mapName = currentMapName

(***************************************************************************)
(* C29: the wander timer.                                                  *)
(***************************************************************************)
\* Ghost i ran the chase branch in the last tick: the state and the target
\* are those its update decided on before it moved.
ChaseTick(i) == ghosts[i].state = "chase" /\ ghosts[i].target # "null"
\* Ghost i resampled its heading in the last tick.
Resampled(i) == ~ChaseTick(i) /\ last.prev.ghosts[i].changeDirTimer <= 0

\* What one tick does to the heading and the timer of ghost i.
TimerStep(i) ==
    LET b == last.prev.ghosts[i]
        a == ghosts[i]
    IN IF ChaseTick(i)
       THEN a.dx = b.dx /\ a.dy = b.dy /\ a.changeDirTimer = b.changeDirTimer
       ELSE IF b.changeDirTimer <= 0
       THEN a.changeDirTimer = DIR_TIMER
       ELSE a.dx = b.dx /\ a.dy = b.dy /\ a.changeDirTimer = b.changeDirTimer - 1

\* C29 as stated: the timer stays within 0..120, a tick changes heading and
\* timer as described, and the first ghost, which wanders throughout from a
\* timer of 0, resamples every 120 ticks: in tick 1, 121, 241, ...
C29_Every120 ==
    /\ \A i \in DOMAIN ghosts : ghosts[i].changeDirTimer \in 0..DIR_TIMER
    /\ Ticked => /\ \A i \in DOMAIN ghosts : TimerStep(i)
                 /\ Resampled(1) <=> (ticks % DIR_TIMER = 1)

\* C29 as the code has it: the same, with a resample every 121 ticks (the tick
\* that resamples sets the timer to 120, 120 ticks count it down to 0, and the
\* tick after those resamples): in tick 1, 122, 243, ...
C29_Every121 ==
    /\ \A i \in DOMAIN ghosts : ghosts[i].changeDirTimer \in 0..DIR_TIMER
    /\ Ticked => /\ \A i \in DOMAIN ghosts : TimerStep(i)
                 /\ Resampled(1) <=> (ticks % (DIR_TIMER + 1) = 1)

\* The first ghost has resampled for the second time, in tick 122, after
\* counting its timer down from 120 to 0.
C29_Witness ==
    /\ Ticked
    /\ ticks = DIR_TIMER + 2
    /\ Resampled(1)
    /\ ghosts[1].changeDirTimer = DIR_TIMER
    /\ last.prev.ghosts[1].changeDirTimer = 0

(***************************************************************************)
(* C31  Idle axis.  In a tick with no net horizontal input Player.update   *)
(* leaves player.x unchanged, and with no net vertical input it leaves     *)
(* player.y unchanged, given the position is already inside the map.       *)
(***************************************************************************)
C31_IdleAxis ==
    (/\ Ticked
     /\ last.prev.player.x \in 0..(MAP_WIDTH - PLAYER_SIZE)
     /\ last.prev.player.y \in 0..(MAP_HEIGHT - PLAYER_SIZE))
    => /\ last.dx = 0 => last.moved.x = last.prev.player.x
       /\ last.dy = 0 => last.moved.y = last.prev.player.y

(***************************************************************************)
(* C32  Multiplayer start makes progress.  After startGame("multiplayer")  *)
(* loadMap is eventually invoked and completes, also when the first socket *)
(* closes without an open event.                                           *)
(***************************************************************************)
C32_StartProgress ==
    (gameStarted /\ multiplayer) ~> (loadPhase = "done")

(***************************************************************************)
(* C33  Ghosts stay out of walls.  Once loadMap has completed, no ghost's  *)
(* rectangle overlaps a wall or an obstacle in any later state.            *)
(***************************************************************************)
C33_GhostsClear ==
    (HasWalls(variant) /\ loadPhase = "done") => \A i \in DOMAIN ghosts : ~InCollider(ghosts[i])

(***************************************************************************)
(* C34  A departed remote player stays gone.  After playerLeft{id} is      *)
(* handled, id is absent from the registry, and a playerMoved{id} that     *)
(* arrives after it does not put id back.                                  *)
(***************************************************************************)
C34_DepartedStaysGone ==
    (last.op = "message" /\ last.net.parses) =>
        LET msg == last.net.msg
        IN /\ msg.type = "playerLeft" => ~Has(otherPlayers, msg.id)
           /\ (/\ msg.type = "playerMoved"
               /\ last.net.prior = [type |-> "playerLeft", id |-> msg.id])
              => ~Has(otherPlayers, msg.id)

(***************************************************************************)
(* C35  A powerupTaken message of the server deactivates at most one local *)
(* power-up and has no effect on the local player: the player, with its    *)
(* lives, and the time and the multiplier of the speed buff are as before  *)
(* the message, and a power-up that was inactive is not touched.           *)
(***************************************************************************)
\* The power-ups the last step changed.
Touched == {i \in DOMAIN powerups : powerups[i] # last.prev.powerups[i]}

C35_TakenEffect ==
    TakenMessage =>
        /\ DOMAIN powerups = DOMAIN last.prev.powerups
        /\ Cardinality(Touched) <= 1
        /\ \A i \in Touched :
             /\ last.prev.powerups[i].active
             /\ powerups[i] = [last.prev.powerups[i] EXCEPT !.active = FALSE]
        /\ player = last.prev.player
        /\ speedBuffTime = last.prev.buffTime
        /\ speedBuffMultiplier = last.prev.buffMult

\* The message named the place of a power-up that was inactive already, the
\* other one being active: nothing changed.
C35_Witness ==
    /\ TakenMessage
    /\ \E i \in DOMAIN powerups : ~last.prev.powerups[i].active /\ TakenDist2(i) < 200 * 200
    /\ \E i \in DOMAIN powerups : powerups[i].active
    /\ Touched = {}

(***************************************************************************)
(* C36  Respawn is clear of ghosts.  Right after a frame in which a ghost  *)
(* contact respawned the player, the player's rectangle overlaps no ghost. *)
(***************************************************************************)
C36_RespawnClearOfGhosts ==
    (Ticked /\ last.hits > 0) =>
        \A i \in DOMAIN ghosts :
            ~Overlap(player.x, player.y, player.size, player.size,
                     ghosts[i].x, ghosts[i].y, ghosts[i].size, ghosts[i].size)

(***************************************************************************)
(* C37  Single connection.  Across the initial connect, the closes and the *)
(* reconnect timeouts, at most one socket is connecting or open at any     *)
(* time: a socket is live exactly while the current one has not closed, a  *)
(* socket just created is the only live one, and no timeout that would     *)
(* create another is pending while one is live.                            *)
(***************************************************************************)
\* connectSocket has just run: from startGame("multiplayer") or from the timeout.
SocketCreated ==
    \/ last.op = "reconnect"
    \/ last.op = "startGame" /\ socket = "connecting"

C37_SingleConnection ==
    /\ liveSockets \in {0, 1}
    /\ (liveSockets = 1) <=> (socket \in {"connecting", "reconnecting", "open"})
    /\ SocketCreated => liveSockets = 1
    /\ liveSockets = 1 => timers = 0

\* The first socket of a multiplayer start has closed and the timeout has
\* created the next one.
C37_Witness ==
    /\ origin = "constructed"
    /\ multiplayer
    /\ last.op = "reconnect"
    /\ socket = "reconnecting"
    /\ liveSockets = 1


(***************************************************************************)
(* C38  Pause freezes the simulation.  No update runs while the pause flag *)
(* is set: a frame that ran update leaves a state that is not paused.  A   *)
(* frame drawn while paused leaves the player, the ghosts, the power-ups,  *)
(* the camera and the speed buff's remaining time and multiplier as they   *)
(* were.  A frame that ran update with the buff active took from the buff  *)
(* the time of that one frame only, whatever time passed in the frames     *)
(* drawn while paused before it.                                           *)
(***************************************************************************)
PausedDrawn == last.op = "pausedFrame"

C38_PauseFreezes ==
    /\ Ticked => ~paused
    /\ PausedDrawn =>
          /\ paused
          /\ player = last.prev.player
          /\ ghosts = last.prev.ghosts
          /\ powerups = last.prev.powerups
          /\ camX = last.prev.camX /\ camY = last.prev.camY
          /\ speedBuffTime = last.prev.buffTime
          /\ speedBuffMultiplier = last.prev.buffMult
    /\ (Ticked /\ last.prev.buffTime > 0) =>
          last.prev.buffTime - last.buffAt \in FrameTimes

\* A frame drawn while paused with the speed buff running, after a frame that
\* ran update.
C38_Witness ==
    /\ PausedDrawn
    /\ paused
    /\ ticks > 0
    /\ speedBuffTime > 0

====
